---- MODULE Spec2Model ----
(***************************************************************************)
(* A state-machine model of the gated-shortlink resolvers of               *)
(* mgayushjs/gplinks_bot.                                                  *)
(*                                                                         *)
(* The repository holds four copies of the resolver:                       *)
(*   "api"  src/bot.py 1-360         bypass_url_once / bypass_endpoint     *)
(*   "bot"  src/bot.py 360-833       attempt_bypass_once / bypass_gplinks  *)
(*   "nav"  src/web_bypass.py 1-485  bypass_once / bypass_endpoint         *)
(*   "form" src/web_bypass.py 485-   gplinks_bypass_sync / bypass          *)
(* The variable `variant` says which copy serves the request.              *)
(*                                                                         *)
(* Text (URLs, page markup) is a sequence of tokens; substring search is   *)
(* search for a contiguous run of tokens, lower-casing is per token.       *)
(***************************************************************************)
EXTENDS Integers, Sequences, FiniteSets, TLC

\* ------------------------------------------------------------------ bounds
\* The largest attempt count a request asks for.
MaxAttempts == 2
\* Seconds of the per-attempt budget, in rounds of the model clock
\* (src/web_bypass.py:35 sets 90, src/bot.py:27 and :369 set 60).
MAX_TOTAL_WAIT == 2
\* The safety cap on navigations, scaled (src/web_bypass.py:37 sets 30).
MAX_NAV_HISTORY == 2
\* Seconds of the grace window, scaled (src/web_bypass.py:295 sets 8).
GRACE_SECONDS == 1
\* attempts = max(1, min(10, ...)) of both bypass_endpoint
ATTEMPTS_CAP == 10

\* ------------------------------------------------------------------- text
None == <<>>

\* str.lower(), token by token.
Lower(t) ==
  CASE t = "GPLinks" -> "gplinks"
    [] t = "Get2" -> "get2"
    [] t = "CAPTCHA" -> "captcha"
    [] t = "Please " -> "please "
    [] t = "Verify" -> "verify"
    [] t = "I Am Not A Robot" -> "i am not a robot"
    [] t = "Get Link" -> "get link"
    [] t = "ON" -> "on"
    [] OTHER -> t

lower(s) == [k \in 1..Len(s) |-> Lower(s[k])]

\* `m in s` of two strings.
Contains(s, m) ==
  \E k \in 1..(Len(s) - Len(m) + 1) : SubSeq(s, k, k + Len(m) - 1) = m

\* The order of str on the tokens that start to differ in the URLs below.
TokenRank(t) ==
  CASE t = "app." -> 1
    [] t = "files.example" -> 2
    [] t = "gplinks" -> 3
    [] OTHER -> 4

RECURSIVE StrLess(_, _)
StrLess(a, b) ==
  IF b = <<>> THEN FALSE
  ELSE IF a = <<>> THEN TRUE
  ELSE IF Head(a) = Head(b) THEN StrLess(Tail(a), Tail(b))
  ELSE TokenRank(Head(a)) < TokenRank(Head(b))

\* sorted(S)[-1] in the place of sorted(S)[0].
SortedLast(S) == CHOOSE x \in S : \A y \in S \ {x} : StrLess(y, x)

\* sorted(S)[0]
SortedFirst(S) == CHOOSE x \in S : \A y \in S \ {x} : StrLess(x, y)

\* ------------------------------------------------------------------- URLs
U_GATE == <<"https://", "gplinks", ".co", "/", "abc">>
U_GATE2 == <<"https://", "GPLinks", ".co", "/", "step2">>
U_PLAIN == <<"https://", "example.com", "/", "s">>
U_DEST == <<"https://", "files.example", "/", "a.bin">>
U_NET == <<"https://", "app.", "herokuapp.com", "/", "generate?code=", "1">>
U_NETG == <<"https://", "gplinks", "-dl.", "herokuapp.com", "/", "generate?code=", "2">>

\* ------------------------------------------------------ bytes and base64
\* A text is a sequence of tokens; a token of one character is that character.
\* The printable characters in the order of their codes, 32 to 126.
Ascii ==
  <<" ", "!", "\"", "#", "$", "%", "&", "'", "(", ")", "*", "+", ",", "-", ".", "/",
   "0", "1", "2", "3", "4", "5", "6", "7", "8", "9", ":", ";", "<", "=", ">", "?",
   "@", "A", "B", "C", "D", "E", "F", "G", "H", "I", "J", "K", "L", "M", "N", "O",
   "P", "Q", "R", "S", "T", "U", "V", "W", "X", "Y", "Z", "[", "\\", "]", "^", "_",
   "\\x60", "a", "b", "c", "d", "e", "f", "g", "h", "i", "j", "k", "l", "m", "n", "o",
   "p", "q", "r", "s", "t", "u", "v", "w", "x", "y", "z", "{", "|", "}", "~">>

\* ord(c) of a printable character.
Ord(c) == 31 + CHOOSE k \in 1..Len(Ascii) : Ascii[k] = c

\* The alphabet of base64.urlsafe_b64encode.
B64Alphabet ==
  <<"A", "B", "C", "D", "E", "F", "G", "H", "I", "J", "K", "L", "M", "N", "O", "P",
   "Q", "R", "S", "T", "U", "V", "W", "X", "Y", "Z", "a", "b", "c", "d", "e", "f",
   "g", "h", "i", "j", "k", "l", "m", "n", "o", "p", "q", "r", "s", "t", "u", "v",
   "w", "x", "y", "z", "0", "1", "2", "3", "4", "5", "6", "7", "8", "9", "-", "_">>

\* The value of a character in urlsafe_b64decode, which maps - and _ to + and /
\* and then decodes the standard alphabet: + and / count as well. -1: the
\* character is outside the alphabet.
B64Val(c) ==
  IF \E k \in 1..64 : B64Alphabet[k] = c
  THEN (CHOOSE k \in 1..64 : B64Alphabet[k] = c) - 1
  ELSE IF c = "+" THEN 62
  ELSE IF c = "/" THEN 63
  ELSE -1

\* base64.urlsafe_b64encode(bs): three bytes give four characters, the last
\* group is filled with = . Character k of the output comes from the two bytes
\* that hold its six bits.
urlsafe_b64encode(bs) ==
  LET n == Len(bs)
      byte(j) == IF j <= n THEN bs[j] ELSE 0
      sextet(k) ==
        LET g == (k - 1) \div 4
            word == byte(3 * g + 1) * 65536 + byte(3 * g + 2) * 256 + byte(3 * g + 3)
        IN CASE (k - 1) % 4 = 0 -> word \div 262144
             [] (k - 1) % 4 = 1 -> (word \div 4096) % 64
             [] (k - 1) % 4 = 2 -> (word \div 64) % 64
             [] (k - 1) % 4 = 3 -> word % 64
      data == (n * 8 + 5) \div 6
  IN [k \in 1..(4 * ((n + 2) \div 3)) |->
        IF k <= data THEN B64Alphabet[sextet(k) + 1] ELSE "="]

\* binascii.a2b_base64 as base64.b64decode calls it (not strict). Characters
\* outside the alphabet are skipped. An = ends the data when the open group has
\* at least two characters and, with the = seen since the last character of the
\* data, four; what follows is not read. Data that end inside a group raise
\* binascii.Error (ok is false). Byte j of the output is made of the two
\* characters of the data that hold its bits.
a2b_base64(s) ==
  LET n == Len(s)
      valid == {k \in 1..n : s[k] # "=" /\ B64Val(s[k]) >= 0}
      quad_pos(k) == Cardinality({j \in valid : j < k}) % 4
      last(k) == IF \E j \in valid : j < k
                 THEN CHOOSE j \in valid : j < k /\ \A h \in valid : h < k => h <= j
                 ELSE 0
      pads(k) == Cardinality({j \in (last(k) + 1)..k : s[j] = "="})
      stops == {k \in 1..n : s[k] = "=" /\ quad_pos(k) >= 2 /\ quad_pos(k) + pads(k) >= 4}
      done == IF stops = {} THEN n + 1 ELSE CHOOSE k \in stops : \A h \in stops : k <= h
      used == {k \in valid : k < done}
      data == [j \in 1..Cardinality(used) |->
                 B64Val(s[CHOOSE k \in used : Cardinality({h \in used : h < k}) = j - 1])]
      byte(j) == LET a == (8 * (j - 1)) \div 6
                     o == 8 * (j - 1) - 6 * a
                     v == data[a + 1] * 64 + data[a + 2]
                 IN CASE o = 0 -> v \div 16
                      [] o = 2 -> (v \div 4) % 256
                      [] o = 4 -> v % 256
  IN IF stops = {} /\ Len(data) % 4 # 0
     THEN [ok |-> FALSE, bytes |-> <<>>]
     ELSE [ok |-> TRUE, bytes |-> [j \in 1..((Len(data) * 6) \div 8) |-> byte(j)]]

\* bytes.decode(errors="ignore"): a byte below 128 is its character, a lead byte
\* followed by its continuation bytes is one character outside ASCII, every
\* other byte is dropped.
decode_ignore(bs) ==
  LET n == Len(bs)
      more(k) == IF bs[k] >= 194 /\ bs[k] <= 223 THEN 1
                 ELSE IF bs[k] >= 224 /\ bs[k] <= 239 THEN 2
                 ELSE IF bs[k] >= 240 /\ bs[k] <= 244 THEN 3
                 ELSE 0
      leads(k) == /\ more(k) > 0
                  /\ k + more(k) <= n
                  /\ \A j \in (k + 1)..(k + more(k)) : bs[j] >= 128 /\ bs[j] <= 191
      char(k) == IF bs[k] >= 32 /\ bs[k] <= 126 THEN Ascii[bs[k] - 31]
                 ELSE IF bs[k] < 128 THEN "\\x"
                 ELSE IF leads(k) THEN "\\u"
                 ELSE "drop"
  IN SelectSeq([k \in 1..n |-> char(k)], LAMBDA c : c # "drop")

\* The tokens of more than one character that occur in the texts the decoders
\* measure, encode or produce.
Vocabulary ==
  {"https://", "http://", "files.example", "a.bin", "GPLinks", "gplinks", ".co",
   "step2", "app.", "herokuapp.com", "generate?code=", "dest.example", "https%3A%2F%2F", "not a link"}

\* The characters of a token.
Chars(t) ==
  CASE t = "https://" -> <<"h", "t", "t", "p", "s", ":", "/", "/">>
    [] t = "http://" -> <<"h", "t", "t", "p", ":", "/", "/">>
    [] t = "files.example" -> <<"f", "i", "l", "e", "s", ".", "e", "x", "a", "m", "p", "l", "e">>
    [] t = "a.bin" -> <<"a", ".", "b", "i", "n">>
    [] t = "GPLinks" -> <<"G", "P", "L", "i", "n", "k", "s">>
    [] t = "gplinks" -> <<"g", "p", "l", "i", "n", "k", "s">>
    [] t = ".co" -> <<".", "c", "o">>
    [] t = "step2" -> <<"s", "t", "e", "p", "2">>
    [] t = "app." -> <<"a", "p", "p", ".">>
    [] t = "herokuapp.com" -> <<"h", "e", "r", "o", "k", "u", "a", "p", "p", ".", "c", "o", "m">>
    [] t = "generate?code=" -> <<"g", "e", "n", "e", "r", "a", "t", "e", "?", "c", "o", "d", "e", "=">>
    [] t = "dest.example" -> <<"d", "e", "s", "t", ".", "e", "x", "a", "m", "p", "l", "e">>
    [] t = "https%3A%2F%2F" -> <<"h", "t", "t", "p", "s", "%", "3", "A", "%", "2", "F", "%", "2", "F">>
    [] t = "not a link" -> <<"n", "o", "t", " ", "a", " ", "l", "i", "n", "k">>
    [] OTHER -> <<t>>

\* The characters of a text.
RECURSIVE Flatten(_)
Flatten(s) ==
  IF s = <<>> THEN <<>>
  ELSE IF Len(s) = 1 THEN Chars(s[1])
  ELSE LET h == Len(s) \div 2
       IN Flatten(SubSeq(s, 1, h)) \o Flatten(SubSeq(s, h + 1, Len(s)))

\* The same text in tokens: at each place the longest token of the vocabulary
\* that starts there, or the character.
RECURSIVE Tokenize(_)
Tokenize(cs) ==
  IF cs = <<>> THEN <<>>
  ELSE LET fits == {t \in Vocabulary :
                      Len(Chars(t)) <= Len(cs) /\ SubSeq(cs, 1, Len(Chars(t))) = Chars(t)}
           t == IF fits = {} THEN Head(cs)
                ELSE CHOOSE x \in fits : \A y \in fits : Len(Chars(y)) <= Len(Chars(x))
       IN <<t>> \o Tokenize(SubSeq(cs, Len(Chars(t)) + 1, Len(cs)))

\* str.encode() of a text of printable characters.
encode(s) == LET cs == Flatten(s) IN [k \in 1..Len(cs) |-> Ord(cs[k])]

\* base64.urlsafe_b64decode(bs).decode(errors="ignore"); ok is false when the
\* decoding raised.
decode_bytes(r) ==
  [ok |-> r.ok, text |-> IF r.ok THEN Tokenize(decode_ignore(r.bytes)) ELSE <<>>]
urlsafe_b64decode(cs) == decode_bytes(a2b_base64(cs))

\* The payload of a link: the encoding of a text, with its = or without.
b64(s) == urlsafe_b64encode(encode(s))
b64_unpadded(s) == SelectSeq(b64(s), LAMBDA c : c # "=")

StartUrls == {U_GATE, U_PLAIN}
\* The locations the page can be at while a request for `start` is served.
PageUrls(start) == {start, U_GATE2, U_DEST}

\* ------------------------------------------------------------ classifiers
\* src/web_bypass.py looks_final
looks_final_nav(u) ==
  IF u = None THEN FALSE
  ELSE /\ ~Contains(lower(u), <<"gplinks", ".co">>)
       /\ ~Contains(lower(u), <<"get2", ".in">>)
       /\ ~Contains(lower(u), <<"gplinks">>)

\* The regular expression https?://[A-Za-z0-9\-.]+herokuapp\.com/...generate\?code=...
\* applied to one URL occurring in a text.
IsHerokuGenerate(u) ==
  /\ Len(u) >= 5
  /\ u[1] = "https://"
  /\ \E k \in 2..(Len(u) - 3) :
       /\ u[k] = "herokuapp.com"
       /\ u[k + 1] = "/"
       /\ \A j \in 2..(k - 1) : u[j] \notin {"/", "?"}
       /\ \E g \in (k + 2)..(Len(u) - 1) : u[g] = "generate?code="

\* re.search over a text: the first URL of the text the expression matches.
RECURSIVE HerokuSearch(_)
HerokuSearch(links) ==
  IF links = <<>> THEN None
  ELSE IF IsHerokuGenerate(Head(links)) THEN Head(links)
  ELSE HerokuSearch(Tail(links))

\* ------------------------------------------------------------ page inputs
\* What page.content() can give: the text and the URLs written in the markup.
C_EMPTY == [text |-> <<>>, links |-> <<>>, meta |-> None, js |-> None]
C_WAIT == [text |-> <<"Your link is almost ready">>, links |-> <<>>, meta |-> None, js |-> None]
C_HUMAN == [text |-> <<"Please ", "Verify", " you are human">>, links |-> <<>>, meta |-> None, js |-> None]
C_RECAPTCHA == [text |-> <<"g-", "re", "CAPTCHA">>, links |-> <<>>, meta |-> None, js |-> None]
C_HEROKU == [text |-> <<"Your link">>, links |-> <<U_GATE2, U_NET>>, meta |-> None, js |-> None]
C_META == [text |-> <<"Redirecting">>, links |-> <<>>, meta |-> U_GATE2, js |-> None]
C_JS == [text |-> <<"Redirecting">>, links |-> <<>>, meta |-> None, js |-> U_DEST]
\* C_EMPTY is also what a failed read leaves in `content`.
Contents == {C_EMPTY, C_WAIT, C_HUMAN, C_RECAPTCHA, C_HEROKU, C_META, C_JS}

CaptchaKeywords ==
  {<<"captcha">>, <<"re", "captcha">>, <<"h", "captcha">>,
   <<"i am not a robot">>, <<"please ", "verify">>}

\* any(k in content.lower() for k in (...))
detect_captcha(content) ==
  \E k \in CaptchaKeywords : Contains(lower(content.text), k)

\* The interactive elements of a page: the text and aria-label, the href, and
\* what activating the element does. act: "click" (el.click works), "eval"
\* (only the script-level click works), "dead" (both fail); nav: where the
\* page is once the wait is over; html: the markup then.
E_GETLINK == [text |-> <<"Get Link">>, href |-> None, act |-> "click", nav |-> U_GATE2, html |-> C_WAIT]
E_GETDEST == [text |-> <<"get link">>, href |-> None, act |-> "eval", nav |-> U_DEST, html |-> C_HEROKU]
E_STATIC == [text |-> <<"download">>, href |-> U_DEST, act |-> "dead", nav |-> None, html |-> C_WAIT]
E_INERT == [text |-> <<"continue">>, href |-> U_GATE, act |-> "click", nav |-> None, html |-> C_WAIT]
E_OTHER == [text |-> <<"About us">>, href |-> U_DEST, act |-> "click", nav |-> U_DEST, html |-> C_WAIT]
ElementLists ==
  {<<>>, <<E_OTHER>>, <<E_GETLINK>>, <<E_OTHER, E_GETDEST>>,
   <<E_INERT, E_STATIC>>, <<E_STATIC, E_GETLINK>>, <<E_INERT, E_GETLINK>>}

patterns ==
  {"get link", "get-link", "getlink", "get now", "show link", "click here",
   "continue", "open link", "get url", "get code", "generate", "download"}

\* ------------------------------------------------------------------ state
VARIABLES
  variant, url, attempts, include_screenshot,
  pc, i, attempt_made, res, final, stop,
  started, chosen, goto_url, nav_raised,
  result, current_url, last_url, content, clock,
  nav_history, found_network_urls, grace, listeners, clicked,
  pageUrl, page, context, browser,
  pending, response,
  handlers, files, CONFIG,
  fn, arg, ret

\* The request; the orchestrator's locals; three history variables (the
\* attempts begun so far, the network candidate the latest network-first check
\* chose, the argument of the latest page.goto, whether that page.goto raised
\* and the round loop has not begun since);
\* the attempt's locals; those only bypass_once has; the session; the exit.
reqv == <<variant, url, attempts, include_screenshot>>
orchv == <<i, attempt_made, res, final, stop>>
orchv_but_res == <<i, attempt_made, final, stop>>
ghostv == <<started, chosen, goto_url, nav_raised>>
locv == <<result, current_url, last_url, content, clock>>
\* `clicked` is a history variable: the click helper clicked an element in the
\* current round of bypass_once.
navv == <<nav_history, found_network_urls, grace, listeners, clicked>>
sessv == <<page, context, browser>>
exitv == <<pending, response>>
\* The Telegram handlers in flight, the screenshot files in /tmp and the
\* settings the commands of the bot change.
botv == <<handlers, files, CONFIG>>
\* One call of a helper function on its own: its name, its argument, what it
\* returned.
unitv == <<fn, arg, ret>>
vars == <<reqv, pc, orchv, ghostv, locv, navv, pageUrl, sessv, exitv, botv, unitv>>

SHOT == <<"png">>

\* x or d
Or(x, d) == IF x = None THEN d ELSE x

\* {"final_url": url, "raw_last_url": url, "captcha_detected": False, "screenshot_b64": None}
NewResult(u) ==
  [final_url |-> u, raw_last_url |-> u, captcha_detected |-> FALSE,
   screenshot_b64 |-> None, nav_history |-> <<>>]

\* The attempt's locals once the attempt has returned: they are gone.
NoLocals ==
  /\ result' = NewResult(None)
  /\ current_url' = None
  /\ last_url' = None
  /\ content' = C_EMPTY
  /\ clock' = 0

\* --------------------------------------- src/web_bypass.py: the click helper
\* Line 115: the text of the element holds one of the patterns.
is_candidate(el) == \E p \in patterns : Contains(lower(el.text), <<p>>)

\* try_click_getlink_elements, from the element at the head of `els` on; `cur`
\* is page.url and `done` counts the elements clicked so far. Gives the value
\* returned, page.url at the return, whether the helper clicked an element
\* (el.click, or the evaluate fallback, went through) and how many it clicked.
RECURSIVE ScanElements(_, _, _, _)
ScanElements(els, base_url, cur, done) ==
  IF els = <<>> THEN [ret |-> None, page |-> cur, clicked |-> done > 0, clicks |-> done]
  ELSE
    LET el == Head(els)
        matched == is_candidate(el)
        new_url == IF el.act \in {"click", "eval"} /\ el.nav # None THEN el.nav ELSE cur
        m == HerokuSearch(el.html.links)
        full == el.href
        now == IF el.act \in {"click", "eval"} THEN done + 1 ELSE done
    IN IF ~matched THEN ScanElements(Tail(els), base_url, cur, done)
       ELSE IF new_url # None /\ new_url # base_url
         THEN [ret |-> IF m # None THEN m ELSE new_url, page |-> new_url,
               clicked |-> now > 0, clicks |-> now]
       ELSE IF /\ el.href # None
               /\ \/ looks_final_nav(full)
                  \/ Contains(full, <<"herokuapp.com">>)
                  \/ Contains(full, <<"/", "generate?code=">>)
         THEN [ret |-> full, page |-> new_url, clicked |-> now > 0, clicks |-> now]
       ELSE IF m # None THEN [ret |-> m, page |-> new_url, clicked |-> now > 0, clicks |-> now]
       ELSE ScanElements(Tail(els), base_url, new_url, now)

try_click_getlink_elements(els, page_url) == ScanElements(els, page_url, page_url, 0)

\* ------------------------------------ src/web_bypass.py: the response listener
\* A response: its URL, whether its content type is text or json, and the URLs
\* written in its body.
R_PLAIN == [url |-> U_GATE2, text |-> TRUE, body |-> <<>>]
R_HEROKU == [url |-> U_NET, text |-> FALSE, body |-> <<>>]
R_GATEGEN == [url |-> U_NETG, text |-> FALSE, body |-> <<>>]
R_BODY == [url |-> U_GATE, text |-> TRUE, body |-> <<U_DEST, U_NET>>]
R_BINARY == [url |-> U_DEST, text |-> FALSE, body |-> <<U_NET>>]
Responses == {R_PLAIN, R_HEROKU, R_GATEGEN, R_BODY, R_BINARY}

\* on_response: what found_set holds after the response.
on_response(found_set, resp) ==
  LET byUrl == IF \/ Contains(resp.url, <<"herokuapp.com">>)
                  \/ Contains(resp.url, <<"/", "generate?code=">>)
               THEN {resp.url} ELSE {}
      m == IF resp.text THEN HerokuSearch(resp.body) ELSE None
      byBody == IF m # None THEN {m} ELSE {}
  IN found_set \cup byUrl \cup byBody

\* The script elements of a page: the URLs written in a script's text and
\* its base64-shaped tokens.
S_PLAIN == [links |-> <<>>, b64s |-> <<>>]
S_LINK == [links |-> <<U_GATE2, U_NET>>, b64s |-> <<>>]
S_B64 == [links |-> <<>>, b64s |-> <<b64(<<"not a link">>), b64_unpadded(U_NET)>>]
ScriptLists == {<<>>, <<S_PLAIN, S_LINK>>, <<S_PLAIN, S_B64>>}

\* Lines 347-355: a decoded text that holds both markers is the result; a
\* candidate that does not decode is passed over.
generate_text(dec) ==
  IF dec.ok /\ Contains(dec.text, <<"herokuapp.com">>)
            /\ Contains(dec.text, <<"generate?code=">>)
  THEN dec.text
  ELSE None

\* Lines 341-357: each candidate is filled with = to a multiple of four and
\* decoded, until one gives a result.
RECURSIVE B64Scan(_)
B64Scan(cands) ==
  IF cands = <<>> THEN None
  ELSE LET cand == Head(cands)
           padding == (0 - Len(cand)) % 4
           bs == cand \o [k \in 1..padding |-> "="]
       IN Or(generate_text(urlsafe_b64decode(bs)), B64Scan(Tail(cands)))

\* Lines 322-362: the scan of the script elements in the grace window.
RECURSIVE ScriptScan(_)
ScriptScan(scripts) ==
  IF scripts = <<>> THEN None
  ELSE LET txt == Head(scripts)
           m2 == HerokuSearch(txt.links)
           d == B64Scan(txt.b64s)
       IN IF txt.links = <<>> /\ txt.b64s = <<>> THEN ScriptScan(Tail(scripts))
          ELSE IF m2 # None THEN m2
          ELSE Or(d, ScriptScan(Tail(scripts)))

\* The scan of each of the script lists, computed once.
scanned_at == [scripts \in ScriptLists |-> ScriptScan(scripts)]

\* Line 367: the expression for document.body.innerText asks for at least one
\* character between herokuapp.com/ and generate?code= .
U_NETP == <<"https://", "app.", "herokuapp.com", "/", "api/", "generate?code=", "3">>
RECURSIVE InnerTextSearch(_)
InnerTextSearch(links) ==
  IF links = <<>> THEN None
  ELSE LET u == Head(links) IN
       IF IsHerokuGenerate(u) /\ \E k \in 2..(Len(u) - 2) :
            u[k] = "herokuapp.com" /\ u[k + 1] = "/" /\ u[k + 2] # "generate?code="
       THEN u
       ELSE InnerTextSearch(Tail(links))
InnerTexts == {<<>>, <<U_NET>>, <<U_NET, U_NETP>>}

\* push_history with the append replaced by a fresh list.
push_history_restart(hist, u) ==
  IF u = None THEN hist
  ELSE IF hist = <<>> \/ hist[Len(hist)] # u THEN <<u>>
  ELSE hist

\* push_history without the comparison with the last entry.
push_history_always(hist, u) ==
  IF u = None THEN hist ELSE Append(hist, u)

\* push_history
push_history(hist, u) ==
  IF u = None THEN hist
  ELSE IF hist = <<>> \/ hist[Len(hist)] # u THEN Append(hist, u)
  ELSE hist

\* take a screenshot inside try/except: the image, or nothing when it failed.
Shots(prev) == {SHOT, prev}


\* ------------------------------------------- src/web_bypass.py: bypass_once
\* One of the success returns of bypass_once: final_url, the screenshot in its
\* try/except, raw_last_url, nav_history, return.
NavReturn(fin, raw, hist) ==
  /\ \E shot \in Shots(result.screenshot_b64) :
       result' = [result EXCEPT !.final_url = fin, !.screenshot_b64 = shot,
                                !.raw_last_url = raw, !.nav_history = hist]
  /\ pc' = "once_finally"

\* bypass_once_enter with the set of the attempt before still in use: the
\* candidate that attempt chose is in it from the start.
bypass_once_enter_carrying ==
  /\ pc = "once_enter"
  /\ result' = NewResult(url)
  /\ nav_history' = <<>>
  /\ found_network_urls' = IF chosen = None THEN {} ELSE {chosen}
  /\ listeners' = listeners + 1
  /\ started' = started + 1
  /\ pc' = "once_goto"
  /\ UNCHANGED <<unitv, botv, reqv, orchv, chosen, goto_url, nav_raised, current_url, last_url, content, clock, grace, clicked, pageUrl, sessv, exitv>>

\* Lines 187-193: the result, the history, the network set, the listener.
bypass_once_enter ==
  /\ pc = "once_enter"
  /\ result' = NewResult(url)
  /\ nav_history' = <<>>
  /\ found_network_urls' = {}
  /\ listeners' = listeners + 1
  /\ started' = started + 1
  /\ pc' = "once_goto"
  /\ UNCHANGED <<unitv, botv, reqv, orchv, chosen, goto_url, nav_raised, current_url, last_url, content, clock, grace, clicked, pageUrl, sessv, exitv>>

\* Lines 195-217: goto (a timeout or an error is logged), the initial wait,
\* the first history entry.
bypass_once_goto ==
  /\ pc = "once_goto"
  /\ goto_url' = url
  /\ \E raised \in BOOLEAN : nav_raised' = raised
  /\ \E u \in PageUrls(goto_url') : pageUrl' = u
  /\ nav_history' = Append(nav_history, pageUrl')
  /\ last_url' = pageUrl'
  /\ clock' = 0
  /\ pc' = "once_loop"
  /\ UNCHANGED <<unitv, botv, reqv, orchv, started, chosen, result, current_url, content, found_network_urls, grace, listeners, clicked, sessv, exitv>>

\* Lines 227-241: the loop condition, then the network-first check.
bypass_once_loop ==
  /\ pc = "once_loop"
  /\ IF clock < MAX_TOTAL_WAIT /\ Len(nav_history) < MAX_NAV_HISTORY
     THEN /\ current_url' = pageUrl
          /\ IF found_network_urls # {}
             THEN /\ NavReturn(SortedFirst(found_network_urls), pageUrl, nav_history)
                  /\ chosen' = SortedFirst(found_network_urls)
             ELSE /\ result' = [result EXCEPT !.raw_last_url = pageUrl]
                  /\ pc' = "once_click"
                  /\ UNCHANGED chosen
     ELSE /\ pc' = "once_timeout"
          /\ UNCHANGED <<current_url, result, chosen>>
  /\ clicked' = FALSE
  /\ nav_raised' = FALSE
  /\ UNCHANGED <<unitv, botv, reqv, orchv, started, goto_url, last_url, content, clock, nav_history, found_network_urls, grace, listeners, pageUrl, sessv, exitv>>

\* Lines 243-259: the click helper; its result ends the attempt, otherwise the
\* history is brought up to date. While the helper awaits the elements that
\* end in no click, the page can move on by itself (a timer, a refresh).
bypass_once_click ==
  /\ pc = "once_click"
  /\ \E els \in ElementLists :
       LET r == try_click_getlink_elements(els, pageUrl) IN
       /\ clicked' = r.clicked
       /\ IF r.ret # None
          THEN /\ pageUrl' = r.page
               /\ nav_history' = push_history(nav_history, r.page)
               /\ NavReturn(r.ret, r.page, nav_history')
               /\ UNCHANGED last_url
          ELSE \E u \in PageUrls(url) \cup {r.page} :
                 /\ pageUrl' = u
                 /\ IF u # last_url
                    THEN /\ last_url' = u
                         /\ nav_history' = push_history(nav_history, u)
                    ELSE UNCHANGED <<last_url, nav_history>>
                 /\ pc' = "once_content"
                 /\ UNCHANGED result
  /\ UNCHANGED <<unitv, botv, reqv, orchv, ghostv, current_url, content, clock, found_network_urls, grace, listeners, sessv, exitv>>

\* Lines 261-293: the markup scan, the challenge detection, the test that
\* opens the grace window.
bypass_once_content ==
  /\ pc = "once_content"
  /\ \E cont \in Contents :
       IF HerokuSearch(cont.links) # None
       THEN /\ NavReturn(HerokuSearch(cont.links), pageUrl, nav_history)
            /\ UNCHANGED <<grace, content>>
       ELSE \E c \in Contents :
              /\ UNCHANGED content
              /\ IF detect_captcha(c)
                 THEN /\ \E shot \in Shots(result.screenshot_b64) :
                           result' = [result EXCEPT !.captcha_detected = TRUE,
                                                    !.screenshot_b64 = shot,
                                                    !.raw_last_url = pageUrl,
                                                    !.nav_history = nav_history]
                      /\ pc' = "once_finally"
                      /\ UNCHANGED grace
                 ELSE IF looks_final_nav(current_url) /\ current_url # url
                 THEN /\ grace' = GRACE_SECONDS
                      /\ pc' = "once_grace"
                      /\ UNCHANGED result
                 ELSE /\ pc' = "once_fallback"
                      /\ UNCHANGED <<result, grace>>
  /\ UNCHANGED <<unitv, botv, reqv, orchv, ghostv, current_url, last_url, clock, nav_history, found_network_urls, listeners, clicked, pageUrl, sessv, exitv>>

\* Lines 294-390: one pass of the grace window, or its expiry.
bypass_once_grace ==
  /\ pc = "once_grace"
  /\ IF grace > 0
     THEN IF found_network_urls # {}
          THEN /\ NavReturn(SortedFirst(found_network_urls), pageUrl, nav_history)
               /\ chosen' = SortedFirst(found_network_urls)
               /\ UNCHANGED <<nav_history, grace, pageUrl, clicked>>
          ELSE \E els \in ElementLists :
                 LET r == try_click_getlink_elements(els, pageUrl) IN
                 /\ pageUrl' = r.page
                 /\ clicked' = (clicked \/ r.clicked)
                 /\ UNCHANGED chosen
                 /\ IF r.ret # None
                    THEN /\ nav_history' = push_history(nav_history, r.page)
                         /\ NavReturn(r.ret, r.page, nav_history')
                         /\ UNCHANGED grace
                    ELSE \E scripts \in ScriptLists, inner \in InnerTexts, ok \in BOOLEAN :
                           LET hit == Or(scanned_at[scripts], InnerTextSearch(inner))
                           IN /\ UNCHANGED nav_history
                              /\ IF hit # None
                                 THEN /\ NavReturn(hit, r.page, nav_history)
                                      /\ UNCHANGED grace
                                 ELSE IF ok
                                 THEN /\ grace' = grace - 1
                                      /\ pc' = "once_grace"
                                      /\ UNCHANGED result
                                 ELSE /\ pc' = "once_except"
                                      /\ UNCHANGED <<result, grace>>
     ELSE /\ NavReturn(pageUrl, pageUrl, nav_history)
          /\ UNCHANGED <<nav_history, grace, pageUrl, chosen, clicked>>
  /\ UNCHANGED <<unitv, botv, reqv, orchv, started, goto_url, nav_raised, current_url, last_url, content, clock, found_network_urls, listeners, sessv, exitv>>

\* Lines 392-419: the fallback clicks, the wait for the network, the second
\* history update, the wait that ends the round.
bypass_once_fallback ==
  /\ pc = "once_fallback"
  /\ \E u \in PageUrls(url), ok \in BOOLEAN :
       /\ pageUrl' = u
       /\ IF u # last_url
          THEN /\ last_url' = u
               /\ nav_history' = push_history(nav_history, u)
          ELSE UNCHANGED <<last_url, nav_history>>
       /\ IF ok
          THEN /\ clock' = clock + 1
               /\ pc' = "once_loop"
          ELSE /\ pc' = "once_except"
               /\ UNCHANGED clock
  /\ UNCHANGED <<unitv, botv, reqv, orchv, ghostv, result, current_url, content, found_network_urls, grace, listeners, clicked, sessv, exitv>>

\* Lines 421-429: the loop is over.
bypass_once_timeout ==
  /\ pc = "once_timeout"
  /\ NavReturn(Or(pageUrl, result.final_url), pageUrl, nav_history)
  /\ UNCHANGED <<unitv, botv, reqv, orchv, ghostv, current_url, last_url, content, clock, navv, pageUrl, sessv, exitv>>

\* bypass_once_except returning to the caller at once, past the finally clause:
\* the listener stays on the page.
bypass_once_except_leaving ==
  /\ pc = "once_except"
  /\ res' = [result EXCEPT !.nav_history = nav_history]
  /\ NoLocals
  /\ nav_history' = <<>>
  /\ found_network_urls' = {}
  /\ grace' = 0
  /\ clicked' = FALSE
  /\ pc' = "nav_after"
  /\ UNCHANGED <<unitv, botv, reqv, i, attempt_made, final, stop, ghostv, listeners, pageUrl, sessv, exitv>>

\* Lines 431-434: an exception of a page operation that nothing nearer caught.
bypass_once_except ==
  /\ pc = "once_except"
  /\ result' = [result EXCEPT !.nav_history = nav_history]
  /\ pc' = "once_finally"
  /\ UNCHANGED <<unitv, botv, reqv, orchv, ghostv, current_url, last_url, content, clock, navv, pageUrl, sessv, exitv>>

\* Lines 435-439: the listener is removed; the result goes to the caller and
\* the attempt's locals are gone.
bypass_once_finally ==
  /\ pc = "once_finally"
  /\ listeners' = listeners - 1
  /\ res' = result
  /\ NoLocals
  /\ nav_history' = <<>>
  /\ found_network_urls' = {}
  /\ grace' = 0
  /\ clicked' = FALSE
  /\ pc' = "nav_after"
  /\ UNCHANGED <<unitv, botv, reqv, i, attempt_made, final, stop, ghostv, pageUrl, sessv, exitv>>

\* Lines 165-183: a response event reaches the registered listener.
ResponseEvent ==
  /\ listeners > 0
  /\ pc \in {"once_goto", "once_loop", "once_click", "once_content", "once_grace",
             "once_fallback", "once_timeout"}
  /\ \E resp \in Responses :
       /\ found_network_urls' = on_response(found_network_urls, resp)
       /\ found_network_urls' # found_network_urls
  /\ UNCHANGED <<unitv, botv, reqv, pc, orchv, ghostv, locv, nav_history, grace, listeners, clicked, pageUrl, sessv, exitv>>

\* ------------------------------------------------ src/bot.py: the decoder
U_RELAY == <<"https://", "get2", ".in", "/", "?">> \o b64_unpadded(U_DEST)
U_RELAYG ==
  <<"https://", "Get2", ".in", "/", "?", "u", "=">> \o b64_unpadded(U_GATE2) \o <<"&", "t", "=", "1">>

\* The first place of token t in s, 0 when it has none.
IndexOf(s, t) ==
  IF \E k \in 1..Len(s) : s[k] = t
  THEN CHOOSE k \in 1..Len(s) : s[k] = t /\ \A j \in 1..(k - 1) : s[j] # t
  ELSE 0

\* urlparse(url): netloc, path and query of scheme://netloc/path?query .
Netloc(u) ==
  LET rest == IF u = <<>> THEN <<>> ELSE Tail(u)
      ends == {k \in 1..Len(rest) : rest[k] \in {"/", "?"}}
  IN IF ends = {} THEN rest
     ELSE SubSeq(rest, 1, (CHOOSE k \in ends : \A j \in ends : k <= j) - 1)
PathOf(u) ==
  LET rest == IF u = <<>> THEN <<>> ELSE SubSeq(u, Len(Netloc(u)) + 2, Len(u))
      q == IndexOf(rest, "?")
  IN IF q = 0 THEN rest ELSE SubSeq(rest, 1, q - 1)
QueryOf(u) ==
  LET q == IndexOf(u, "?") IN IF q = 0 THEN <<>> ELSE SubSeq(u, q + 1, Len(u))

\* s.split(sep): the pieces of s between the sep tokens.
RECURSIVE Split(_, _)
Split(s, sep) ==
  LET k == IndexOf(s, sep) IN
  IF k = 0 THEN <<s>>
  ELSE <<SubSeq(s, 1, k - 1)>> \o Split(SubSeq(s, k + 1, Len(s)), sep)

\* p.split("=", 1)[-1]
ValueOf(p) ==
  LET k == IndexOf(p, "=") IN IF k = 0 THEN p ELSE SubSeq(p, k + 1, Len(p))

\* len() of a text.
StrLen(s) == Len(Flatten(s))

\* The first k=v part whose value is longer than 8, 0 when there is none.
FirstLong(parts) ==
  LET long == {k \in 1..Len(parts) : IndexOf(parts[k], "=") # 0 /\ StrLen(ValueOf(parts[k])) > 8}
  IN IF long = {} THEN 0 ELSE CHOOSE k \in long : \A j \in long : k <= j

\* urllib.parse.unquote, token by token.
Unquote(t) == IF t = "https%3A%2F%2F" THEN "https://" ELSE t
unquote(s) == [k \in 1..Len(s) |-> Unquote(s[k])]

startswith_http(s) ==
  LET cs == Flatten(s) IN Len(cs) >= 4 /\ SubSeq(cs, 1, 4) = <<"h", "t", "t", "p">>

\* What an exception that leaves a block is, as a value.
Raised == <<"raise">>

\* urlparse raises ValueError for a host with one square bracket only.
urlparse_raises(u) ==
  LET host == Netloc(u) IN (IndexOf(host, "[") # 0) # (IndexOf(host, "]") # 0)

\* Lines 92-99: the decoded text when it starts with http, else the candidate
\* when it does, else None.
http_text(decoded, cand) ==
  IF decoded.ok /\ startswith_http(decoded.text) THEN decoded.text
  ELSE IF startswith_http(cand) THEN cand
  ELSE None

\* Lines 82-99: the candidate is unquoted, filled with = and decoded.
decode_candidate(candidate) ==
  LET cand == unquote(candidate)
      b == Flatten(cand)
      padding == 4 - (Len(b) % 4)
      decoded == urlsafe_b64decode(IF padding < 4 THEN b \o [k \in 1..padding |-> "="] ELSE b)
  IN http_text(decoded, cand)

\* Lines 59-99: the body of the outer try of try_decode_get2_in.
try_decode_get2_in_body(u) ==
  IF urlparse_raises(u) THEN Raised
  ELSE IF ~Contains(lower(Netloc(u)), <<"get2", ".in">>) THEN None
  ELSE
    LET query == Or(QueryOf(u), PathOf(u))
        parts == Split(query, "&")
        candidate == IF IndexOf(query, "=") # 0
                     THEN IF FirstLong(parts) # 0 THEN ValueOf(parts[FirstLong(parts)])
                          ELSE ValueOf(parts[Len(parts)])
                     ELSE query
    IN IF query = <<>> THEN None ELSE decode_candidate(candidate)

\* try_decode_get2_in with the outer except clause taken away.
try_decode_get2_in_no_except(u) == try_decode_get2_in_body(u)

\* try_decode_get2_in: the body, and lines 101-104 that turn every exception
\* into None.
none_if_raised(r) == IF r = Raised THEN None ELSE r
try_decode_get2_in(u) == none_if_raised(try_decode_get2_in_body(u))

\* src/bot.py looks_final (line 47)
looks_final(u) ==
  IF u = None THEN FALSE
  ELSE /\ ~Contains(lower(u), <<"gplinks", ".co">>)
       /\ ~Contains(lower(u), <<"gplinks">>)

\* The copies nested in attempt_bypass_once (line 490) and bypass_gplinks
\* (line 662): (u or "").lower() replaces the test `if not u`.
looks_final_nested(u) ==
  LET s == lower(Or(u, <<>>)) IN
  /\ ~Contains(s, <<"gplinks", ".co">>)
  /\ ~Contains(s, <<"gplinks">>)

\* The hyperlinks of a page: the href, and what page.goto(href) does ("ok":
\* the page is at `lands`; "fail": goto raises).
A_HASH == [href |-> <<"#">>, goto |-> "ok", lands |-> None]
A_GATE == [href |-> U_GATE2, goto |-> "ok", lands |-> U_GATE2]
A_DEST == [href |-> U_DEST, goto |-> "ok", lands |-> U_DEST]
A_BACK == [href |-> U_DEST, goto |-> "ok", lands |-> U_GATE2]
A_DOWN == [href |-> U_DEST, goto |-> "fail", lands |-> None]
AnchorLists == {<<>>, <<A_HASH, A_GATE>>, <<A_GATE, A_DEST>>, <<A_BACK, A_DOWN>>, <<A_BACK>>}

\* Lines 243-273 of src/bot.py (575-602 in attempt_bypass_once): the scan of
\* the anchors. Gives how it ends ("none": no anchor ended the attempt, "page":
\* the page reached is final, "href": goto raised), the URL and page.url.
RECURSIVE AnchorScan(_, _)
AnchorScan(anchors, cur) ==
  IF anchors = <<>> THEN [how |-> "none", fin |-> None, page |-> cur]
  ELSE LET a == Head(anchors) IN
       IF a.href = None \/ a.href[1] \in {"javascript:", "#"} \/ ~looks_final(a.href)
       THEN AnchorScan(Tail(anchors), cur)
       ELSE IF a.goto = "fail" THEN [how |-> "href", fin |-> a.href, page |-> cur]
       ELSE IF looks_final(a.lands) THEN [how |-> "page", fin |-> a.lands, page |-> a.lands]
       ELSE AnchorScan(Tail(anchors), a.lands)

\* ---------------------------------------------- src/bot.py: bypass_url_once
\* The locations the page of this copy can be at: a get2.in relay as well.
PageUrlsApi(start) == PageUrls(start) \cup {U_RELAY, U_RELAYG}

U_DEST1 == <<"https://", "dest.example", "/", "x">>

\* The destinations a relay link is built for: their lengths leave 0, 1 and 2
\* bytes in the last group of the encoding.
Destinations == {U_DEST, U_DEST1, U_NET}

\* A relay link whose query is the payload.
Relay(payload) == <<"https://", "get2", ".in", "/", "?">> \o payload

\* Payloads that neither are nor encode a text starting with http.
JunkPayloads ==
  {<<"!", "!", "!">>, <<"not a link">>, b64_unpadded(<<"not a link">>),
   b64_unpadded(<<"h", "t", "p", ":", "/", "/", "x">>), <<"a", "H", "R", "0", "c">>,
   <<"x", "=">>, <<"u", "=", "1", "&", "t", "=">>}

DecoderUrls ==
  {Relay(b64(d)) : d \in Destinations} \cup {Relay(b64_unpadded(d)) : d \in Destinations}
  \cup {Relay(<<"u", "=">> \o b64(d)) : d \in Destinations}
  \cup {Relay(<<"r", "e", "f", "=", "h", "o", "m", "e", "p", "a", "g", "e", "1", "&", "u", "=">>
               \o b64_unpadded(d)) : d \in Destinations}
  \cup {Relay(<<"u", "=">> \o b64_unpadded(d) \o <<"&", "t", "=", "1">>) : d \in Destinations}
  \cup {Relay(p) : p \in JunkPayloads}
  \cup {Relay(<<"https%3A%2F%2F", "files.example", "/", "a.bin">>),
        <<"https://", "get2", ".in", "/", "abc">>, <<"https://", "get2", ".in">>,
        <<"https://", "[", "get2", ".in", "/", "?">> \o b64(U_DEST)}

\* The URLs a classifier or the decoder is given.
UnitUrls ==
  {None, U_GATE, U_GATE2, U_PLAIN, U_DEST, U_NET, U_NETG, U_NETP, U_RELAY, U_RELAYG,
   <<"http://", "get2", ".in", "/">>, <<"https://", "files.example">>} \cup DecoderUrls

\* decoded = try_decode_get2_in(current_url) of line 153, at each location, and
\* the result of the decoder for each of the links above.
decoded_at ==
  [u \in UNION {PageUrlsApi(start) : start \in StartUrls} \cup UnitUrls |->
     try_decode_get2_in(u)]

\* return result: the caller has it in `res`, the attempt's locals are gone.
ApiReturn(r) ==
  /\ res' = r
  /\ NoLocals
  /\ pc' = "api_after"

\* Lines 116-118.
bypass_url_once_enter ==
  /\ pc = "url_once_enter"
  /\ result' = NewResult(url)
  /\ started' = started + 1
  /\ pc' = "url_once_goto"
  /\ UNCHANGED <<unitv, botv, reqv, orchv, chosen, goto_url, nav_raised, current_url, last_url, content, clock, navv, pageUrl, sessv, exitv>>

\* bypass_url_once_goto without the except clauses of lines 125-128: what
\* page.goto raises reaches the outer handler of the attempt.
bypass_url_once_goto_fatal ==
  /\ pc = "url_once_goto"
  /\ goto_url' = url
  /\ \E raised \in BOOLEAN : nav_raised' = raised
  /\ \E u \in PageUrlsApi(goto_url') : pageUrl' = u
  /\ last_url' = pageUrl'
  /\ clock' = 0
  /\ pc' = IF nav_raised' THEN "url_once_except" ELSE "url_once_loop"
  /\ UNCHANGED <<unitv, botv, reqv, orchv, started, chosen, result, current_url, content, navv, sessv, exitv>>

\* Lines 120-146: goto (a timeout or an error is logged), the early click on
\* the redirect button, the start of the clock.
bypass_url_once_goto ==
  /\ pc = "url_once_goto"
  /\ goto_url' = url
  /\ \E raised \in BOOLEAN : nav_raised' = raised
  /\ \E u \in PageUrlsApi(goto_url') : pageUrl' = u
  /\ last_url' = pageUrl'
  /\ clock' = 0
  /\ pc' = "url_once_loop"
  /\ UNCHANGED <<unitv, botv, reqv, orchv, started, chosen, result, current_url, content, navv, sessv, exitv>>

\* Lines 148-174: the loop condition, the decoder, the current-location check.
bypass_url_once_loop ==
  /\ pc = "url_once_loop"
  /\ IF clock < MAX_TOTAL_WAIT
     THEN LET decoded == decoded_at[pageUrl] IN
          IF decoded # None
          THEN /\ \E shot \in Shots(result.screenshot_b64) :
                    ApiReturn([result EXCEPT !.raw_last_url = pageUrl,
                                             !.final_url = decoded,
                                             !.screenshot_b64 = shot])
               /\ UNCHANGED orchv_but_res
          ELSE IF looks_final(pageUrl) /\ pageUrl # url
          THEN /\ \E shot \in Shots(result.screenshot_b64) :
                    ApiReturn([result EXCEPT !.raw_last_url = pageUrl,
                                             !.final_url = pageUrl,
                                             !.screenshot_b64 = shot])
               /\ UNCHANGED orchv_but_res
          ELSE /\ current_url' = pageUrl
               /\ result' = [result EXCEPT !.raw_last_url = pageUrl]
               /\ pc' = "url_once_content"
               /\ UNCHANGED <<orchv, last_url, content, clock>>
     ELSE /\ pc' = "url_once_timeout"
          /\ UNCHANGED <<orchv, locv>>
  /\ nav_raised' = FALSE
  /\ UNCHANGED <<unitv, botv, reqv, started, chosen, goto_url, navv, pageUrl, sessv, exitv>>

\* bypass_url_once_content with the page's location stored as final_url when
\* the challenge is reported.
bypass_url_once_content_located ==
  /\ pc = "url_once_content"
  /\ \E c \in Contents :
       IF detect_captcha(c)
       THEN /\ \E shot \in Shots(result.screenshot_b64) :
                 ApiReturn([result EXCEPT !.captcha_detected = TRUE,
                                          !.final_url = pageUrl,
                                          !.screenshot_b64 = shot])
            /\ UNCHANGED <<orchv_but_res, pageUrl>>
       ELSE /\ content' = c
            /\ \E u \in PageUrlsApi(url) : pageUrl' = u
            /\ pc' = "url_once_sniff"
            /\ UNCHANGED <<orchv, result, current_url, last_url, clock>>
  /\ UNCHANGED <<unitv, botv, reqv, ghostv, navv, sessv, exitv>>

\* Lines 176-213: the content, the challenge detection, the clicks on the
\* known selectors, the wait for the network.
bypass_url_once_content ==
  /\ pc = "url_once_content"
  /\ \E c \in Contents :
       IF detect_captcha(c)
       THEN /\ \E shot \in Shots(result.screenshot_b64) :
                 ApiReturn([result EXCEPT !.captcha_detected = TRUE,
                                          !.screenshot_b64 = shot])
            /\ UNCHANGED <<orchv_but_res, pageUrl>>
       ELSE /\ content' = c
            /\ \E u \in PageUrlsApi(url) : pageUrl' = u
            /\ pc' = "url_once_sniff"
            /\ UNCHANGED <<orchv, result, current_url, last_url, clock>>
  /\ UNCHANGED <<unitv, botv, reqv, ghostv, navv, sessv, exitv>>

\* The target of the meta refresh, else of the script redirect, of a markup;
\* goto(target) of the first raising, the second is tried.
SniffTargets(c) ==
  (IF c.meta # None THEN <<c.meta>> ELSE <<>>) \o (IF c.js # None THEN <<c.js>> ELSE <<>>)

\* Lines 215-241: the meta refresh and the script redirect are followed.
bypass_url_once_sniff ==
  /\ pc = "url_once_sniff"
  /\ \/ /\ SniffTargets(content) # <<>>
        /\ \E u \in PageUrlsApi(url) : pageUrl' = u
        /\ clock' = clock + 1
        /\ pc' = "url_once_loop"
     \/ /\ pc' = "url_once_anchors"
        /\ UNCHANGED <<pageUrl, clock>>
  /\ UNCHANGED <<unitv, botv, reqv, orchv, ghostv, result, current_url, last_url, content, navv, sessv, exitv>>

\* Lines 243-277: the anchors, then the wait that ends the round.
bypass_url_once_anchors ==
  /\ pc = "url_once_anchors"
  /\ \E anchors \in AnchorLists :
       LET r == AnchorScan(anchors, pageUrl) IN
       /\ pageUrl' = r.page
       /\ IF r.how = "page"
          THEN /\ \E shot \in Shots(result.screenshot_b64) :
                    ApiReturn([result EXCEPT !.final_url = r.fin, !.screenshot_b64 = shot])
               /\ UNCHANGED orchv_but_res
          ELSE IF r.how = "href"
          THEN /\ ApiReturn([result EXCEPT !.final_url = r.fin])
               /\ UNCHANGED orchv_but_res
          ELSE \E ok \in BOOLEAN :
                 /\ last_url' = r.page
                 /\ IF ok
                    THEN /\ clock' = clock + 1
                         /\ pc' = "url_once_loop"
                    ELSE /\ pc' = "url_once_except"
                         /\ UNCHANGED clock
                 /\ UNCHANGED <<orchv, result, current_url, content>>
  /\ UNCHANGED <<unitv, botv, reqv, ghostv, navv, sessv, exitv>>

\* Lines 279-286: the budget is used up.
bypass_url_once_timeout ==
  /\ pc = "url_once_timeout"
  /\ \E shot \in Shots(result.screenshot_b64) :
       ApiReturn([result EXCEPT !.final_url = pageUrl, !.screenshot_b64 = shot])
  /\ UNCHANGED <<unitv, botv, reqv, orchv_but_res, ghostv, navv, pageUrl, sessv, exitv>>

\* bypass_url_once_except returning the page's location as final_url.
bypass_url_once_except_best_effort ==
  /\ pc = "url_once_except"
  /\ ApiReturn([result EXCEPT !.final_url = pageUrl])
  /\ UNCHANGED <<unitv, botv, reqv, orchv_but_res, ghostv, navv, pageUrl, sessv, exitv>>

\* Lines 288-290: an exception that nothing nearer caught.
bypass_url_once_except ==
  /\ pc = "url_once_except"
  /\ ApiReturn(result)
  /\ UNCHANGED <<unitv, botv, reqv, orchv_but_res, ghostv, navv, pageUrl, sessv, exitv>>

\* ------------------------------------------------------ the browser session
\* p.chromium.launch, browser.new_context, context.new_page: the three succeed,
\* or one of them raises and the ones after it are not reached.
AcquireSession(next) ==
  \E failed \in {"none", "launch", "new_context", "new_page"} :
    /\ browser' = IF failed = "launch" THEN "none" ELSE "open"
    /\ context' = IF failed \in {"launch", "new_context"} THEN "none" ELSE "open"
    /\ page' = IF failed = "none" THEN "open" ELSE "none"
    /\ IF failed = "none"
       THEN pc' = next /\ UNCHANGED pending
       ELSE pc' = "raised" /\ pending' = "raise"

\* The two closes in one try: a context that fails to close leaves the browser
\* as it is.
CloseSession_one_try ==
  \E c_ok \in BOOLEAN, b_ok \in BOOLEAN :
    /\ context' = IF c_ok THEN "closed" ELSE "close_failed"
    /\ browser' = IF ~c_ok THEN browser ELSE IF b_ok THEN "closed" ELSE "close_failed"
    /\ UNCHANGED page

\* try: await context.close() except Exception: pass
\* try: await browser.close() except Exception: pass
CloseSession ==
  \E c_ok \in BOOLEAN, b_ok \in BOOLEAN :
    /\ context' = IF c_ok THEN "closed" ELSE "close_failed"
    /\ browser' = IF b_ok THEN "closed" ELSE "close_failed"
    /\ UNCHANGED page

NoResponse ==
  [final_url |-> None, raw_last_url |-> None, captcha_detected |-> FALSE,
   screenshot_b64 |-> None, attempts_made |-> 0, nav_history |-> <<>>]

\* res.update(...) of a dict whose every key the argument has.
DictUpdate(d, r) == r

\* An attempt that decided nothing is followed by another one: its result is
\* not read again (the next final.update(res) replaces every key of it), and
\* the model drops it here.
Forget ==
  /\ res' = NewResult(None)
  /\ final' = NewResult(url)

\* ----------------------------------------------- src/bot.py: bypass_endpoint
\* A loop that leaves on a final URL only.
api_break_final_only(r) == looks_final(r.final_url)

\* Line 327: if res.get("captcha_detected") or looks_final(res.get("final_url"))
api_break(r) == r.captcha_detected \/ looks_final(r.final_url)

\* Lines 307-313.
api_endpoint_launch ==
  /\ variant = "api"
  /\ pc = "launch"
  /\ AcquireSession("api_for")
  /\ final' = NewResult(url)
  /\ attempt_made' = 0
  /\ i' = 1
  /\ UNCHANGED <<unitv, botv, reqv, res, stop, ghostv, locv, navv, pageUrl, response>>

\* The loop as range(1, attempts): the last attempt is not made.
api_endpoint_for_short ==
  /\ pc = "api_for"
  /\ IF i < attempts
     THEN /\ attempt_made' = i
          /\ pc' = "url_once_enter"
          /\ UNCHANGED <<stop, pending>>
     ELSE /\ stop' = "exhausted"
          /\ pending' = "return"
          /\ pc' = "api_finally"
          /\ UNCHANGED attempt_made
  /\ UNCHANGED <<unitv, botv, reqv, i, res, final, ghostv, locv, navv, pageUrl, sessv, response>>

\* Lines 315-324: the next attempt starts, or the loop has run out.
api_endpoint_for ==
  /\ pc = "api_for"
  /\ IF i <= attempts
     THEN /\ attempt_made' = i
          /\ pc' = "url_once_enter"
          /\ UNCHANGED <<stop, pending>>
     ELSE /\ stop' = "exhausted"
          /\ pending' = "return"
          /\ pc' = "api_finally"
          /\ UNCHANGED attempt_made
  /\ UNCHANGED <<unitv, botv, reqv, i, res, final, ghostv, locv, navv, pageUrl, sessv, response>>

\* Lines 325-331: the attempt's result is merged; captcha or final stops.
api_endpoint_after ==
  /\ pc = "api_after"
  /\ final' = DictUpdate(final, res)
  /\ IF api_break(res)
     THEN /\ stop' = IF res.captcha_detected THEN "blocked" ELSE "success"
          /\ pending' = "return"
          /\ pc' = "api_finally"
          /\ UNCHANGED i
     ELSE IF i < attempts
     THEN /\ pc' = "api_backoff"
          /\ UNCHANGED <<i, stop, pending>>
     ELSE /\ i' = i + 1
          /\ pc' = "api_for"
          /\ UNCHANGED <<stop, pending>>
  /\ UNCHANGED <<unitv, botv, reqv, attempt_made, res, ghostv, locv, navv, pageUrl, sessv, response>>

\* Lines 331-337: page.wait_for_timeout(backoff) stands outside every try;
\* page.reload is inside one.
api_endpoint_backoff ==
  /\ pc = "api_backoff"
  /\ \E ok \in BOOLEAN :
       IF ok
       THEN /\ \E u \in PageUrlsApi(url) : pageUrl' = u
            /\ i' = i + 1
            /\ Forget
            /\ pc' = "api_for"
            /\ UNCHANGED <<stop, pending>>
       ELSE /\ stop' = "error"
            /\ pending' = "raise"
            /\ pc' = "api_finally"
            /\ UNCHANGED <<i, res, final, pageUrl>>
  /\ UNCHANGED <<unitv, botv, reqv, attempt_made, ghostv, locv, navv, sessv, response>>

\* Lines 339-347.
api_endpoint_finally ==
  /\ pc = "api_finally"
  /\ CloseSession
  /\ pc' = IF pending = "raise" THEN "raised" ELSE "api_response"
  /\ UNCHANGED <<unitv, botv, reqv, orchv, ghostv, locv, navv, pageUrl, exitv>>

\* The response with the loop variable for attempts_made.
api_endpoint_response_loop_var ==
  /\ pc = "api_response"
  /\ response' = [final_url |-> Or(final.final_url, url),
                  raw_last_url |-> Or(final.raw_last_url, url),
                  captcha_detected |-> final.captcha_detected,
                  screenshot_b64 |-> IF final.screenshot_b64 # None /\ ~include_screenshot
                                     THEN None ELSE final.screenshot_b64,
                  attempts_made |-> i,
                  nav_history |-> <<>>]
  /\ pc' = "returned"
  /\ UNCHANGED <<unitv, botv, reqv, orchv, ghostv, locv, navv, pageUrl, sessv, pending>>

\* The response without lines 350-352: the screenshot stays.
api_endpoint_response_keep ==
  /\ pc = "api_response"
  /\ response' = [final_url |-> Or(final.final_url, url),
                  raw_last_url |-> Or(final.raw_last_url, url),
                  captcha_detected |-> final.captcha_detected,
                  screenshot_b64 |-> final.screenshot_b64,
                  attempts_made |-> attempt_made,
                  nav_history |-> <<>>]
  /\ pc' = "returned"
  /\ UNCHANGED <<unitv, botv, reqv, orchv, ghostv, locv, navv, pageUrl, sessv, pending>>

\* Lines 349-360.
api_endpoint_response ==
  /\ pc = "api_response"
  /\ response' = [final_url |-> Or(final.final_url, url),
                  raw_last_url |-> Or(final.raw_last_url, url),
                  captcha_detected |-> final.captcha_detected,
                  screenshot_b64 |-> IF final.screenshot_b64 # None /\ ~include_screenshot
                                     THEN None ELSE final.screenshot_b64,
                  attempts_made |-> attempt_made,
                  nav_history |-> <<>>]
  /\ pc' = "returned"
  /\ UNCHANGED <<unitv, botv, reqv, orchv, ghostv, locv, navv, pageUrl, sessv, pending>>

\* Lines 314-347 (and 644-695 of bypass_gplinks): the task is cancelled while
\* it awaits a page operation. No `except Exception` catches CancelledError; it
\* leaves the attempt and reaches the finally of the orchestrator.
Cancelled ==
  /\ \/ /\ pc \in {"url_once_goto", "url_once_content", "url_once_sniff",
                     "url_once_anchors", "url_once_timeout", "api_backoff"}
        /\ pc' = "api_finally"
     \/ /\ pc \in {"attempt_goto", "attempt_content", "attempt_sniff",
                     "attempt_anchors", "attempt_timeout", "attempt_except", "bot_backoff"}
        /\ pc' = "bot_finally"
  /\ NoLocals
  /\ stop' = "cancelled"
  /\ pending' = "raise"
  /\ UNCHANGED <<unitv, botv, reqv, i, attempt_made, res, final, ghostv, navv, pageUrl, sessv, response>>

\* ------------------------------------- src/web_bypass.py: bypass_endpoint
\* Lines 459-465.
nav_endpoint_launch ==
  /\ variant = "nav"
  /\ pc = "launch"
  /\ AcquireSession("nav_for")
  /\ final' = NewResult(url)
  /\ attempt_made' = 0
  /\ i' = 1
  /\ UNCHANGED <<unitv, botv, reqv, res, stop, ghostv, locv, navv, pageUrl, response>>

\* Lines 467-474: the next attempt starts, or the loop has run out.
nav_endpoint_for ==
  /\ pc = "nav_for"
  /\ IF i <= attempts
     THEN /\ attempt_made' = i
          /\ pc' = "once_enter"
          /\ UNCHANGED <<stop, pending>>
     ELSE /\ stop' = "exhausted"
          /\ pending' = "return"
          /\ pc' = "nav_finally"
          /\ UNCHANGED attempt_made
  /\ UNCHANGED <<unitv, botv, reqv, i, res, final, ghostv, locv, navv, pageUrl, sessv, response>>

\* Lines 475-483: the attempt's result is merged, then the three ways on.
nav_endpoint_after ==
  /\ pc = "nav_after"
  /\ final' = DictUpdate(final, res)
  /\ IF res.captcha_detected
     THEN /\ stop' = "blocked"
          /\ pending' = "return"
          /\ pc' = "nav_finally"
          /\ UNCHANGED i
     ELSE IF /\ looks_final_nav(final'.final_url)
             /\ ~Contains(lower(final'.final_url), <<"gplinks">>)
     THEN /\ stop' = "success"
          /\ pending' = "return"
          /\ pc' = "nav_finally"
          /\ UNCHANGED i
     ELSE IF i < attempts
     THEN /\ pc' = "nav_backoff"
          /\ UNCHANGED <<i, stop, pending>>
     ELSE /\ i' = i + 1
          /\ pc' = "nav_for"
          /\ UNCHANGED <<stop, pending>>
  /\ UNCHANGED <<unitv, botv, reqv, attempt_made, res, ghostv, locv, navv, pageUrl, sessv, response>>

\* This copy of bypass_endpoint stops in line 485, inside the backoff. What
\* follows it is taken from the specification, section 4.5: "sleep for an
\* exponential backoff ... then reload and retry".
nav_endpoint_backoff ==
  /\ pc = "nav_backoff"
  /\ \E u \in PageUrls(url) : pageUrl' = u
  /\ i' = i + 1
  /\ Forget
  /\ pc' = "nav_for"
  /\ UNCHANGED <<unitv, botv, reqv, attempt_made, stop, ghostv, locv, navv, sessv, exitv>>

\* Section 5: "Resource cleanup (session/context closure) is guaranteed on
\* every exit path ... failures during cleanup are swallowed".
nav_endpoint_finally ==
  /\ pc = "nav_finally"
  /\ CloseSession
  /\ pc' = "nav_response"
  /\ UNCHANGED <<unitv, botv, reqv, orchv, ghostv, locv, navv, pageUrl, exitv>>

\* Section 6: the result as the HTTP handler serializes it.
nav_endpoint_response ==
  /\ pc = "nav_response"
  /\ response' = [final_url |-> Or(final.final_url, url),
                  raw_last_url |-> Or(final.raw_last_url, url),
                  captcha_detected |-> final.captcha_detected,
                  screenshot_b64 |-> IF include_screenshot THEN final.screenshot_b64 ELSE None,
                  attempts_made |-> attempt_made,
                  nav_history |-> final.nav_history]
  /\ pc' = "returned"
  /\ UNCHANGED <<unitv, botv, reqv, orchv, ghostv, locv, navv, pageUrl, sessv, pending>>

\* ------------------------------------------ src/bot.py: attempt_bypass_once
\* Lines 370-371 and 463: SCREENSHOT_PATH_TEMPLATE.format(attempt=attempt).
screenshot_path(attempt) ==
  <<"/tmp", "/gplinks_debug_attempt_", ToString(attempt), ".png">>

\* try: page.screenshot(path=screenshot_path); result["screenshot"] = path
\* except Exception: pass
PathShots(prev, attempt) == {screenshot_path(attempt), prev}

\* return result. This copy names two keys differently: "screenshot" is kept in
\* screenshot_b64 and "raw_last_page_url" in raw_last_url.
BotReturn(r) ==
  /\ res' = r
  /\ NoLocals
  /\ pc' = "bot_after"

\* Lines 462-463.
attempt_bypass_once_enter ==
  /\ pc = "attempt_enter"
  /\ result' = NewResult(url)
  /\ started' = started + 1
  /\ pc' = "attempt_goto"
  /\ UNCHANGED <<unitv, botv, reqv, orchv, chosen, goto_url, nav_raised, current_url, last_url, content, clock, navv, pageUrl, sessv, exitv>>

\* Lines 465-494: goto, the click on the redirect button, the start of the
\* clock.
attempt_bypass_once_goto ==
  /\ pc = "attempt_goto"
  /\ goto_url' = url
  /\ \E raised \in BOOLEAN : nav_raised' = raised
  /\ \E u \in PageUrls(goto_url') : pageUrl' = u
  /\ last_url' = pageUrl'
  /\ clock' = 0
  /\ pc' = "attempt_loop"
  /\ UNCHANGED <<unitv, botv, reqv, orchv, started, chosen, result, current_url, content, navv, sessv, exitv>>

\* Lines 496-507: the loop condition and the current-location check.
attempt_bypass_once_loop ==
  /\ pc = "attempt_loop"
  /\ IF clock < MAX_TOTAL_WAIT
     THEN IF looks_final_nested(pageUrl) /\ pageUrl # url
          THEN /\ \E shot \in PathShots(result.screenshot_b64, i) :
                    BotReturn([result EXCEPT !.raw_last_url = pageUrl,
                                             !.final_url = pageUrl,
                                             !.screenshot_b64 = shot])
               /\ UNCHANGED orchv_but_res
          ELSE /\ current_url' = pageUrl
               /\ result' = [result EXCEPT !.raw_last_url = pageUrl]
               /\ pc' = "attempt_content"
               /\ UNCHANGED <<orchv, last_url, content, clock>>
     ELSE /\ pc' = "attempt_timeout"
          /\ UNCHANGED <<orchv, locv>>
  /\ nav_raised' = FALSE
  /\ UNCHANGED <<unitv, botv, reqv, started, chosen, goto_url, navv, pageUrl, sessv, exitv>>

\* Lines 509-545: the content, the challenge detection, the clicks on the
\* known selectors, the wait for the network.
attempt_bypass_once_content ==
  /\ pc = "attempt_content"
  /\ \E c \in Contents :
       IF detect_captcha(c)
       THEN /\ \E shot \in PathShots(result.screenshot_b64, i) :
                 BotReturn([result EXCEPT !.captcha_detected = TRUE,
                                          !.screenshot_b64 = shot])
            /\ UNCHANGED <<orchv_but_res, pageUrl>>
       ELSE /\ content' = c
            /\ \E u \in PageUrls(url) : pageUrl' = u
            /\ pc' = "attempt_sniff"
            /\ UNCHANGED <<orchv, result, current_url, last_url, clock>>
  /\ UNCHANGED <<unitv, botv, reqv, ghostv, navv, sessv, exitv>>

\* Lines 547-573: the meta refresh and the script redirect are followed.
attempt_bypass_once_sniff ==
  /\ pc = "attempt_sniff"
  /\ \/ /\ SniffTargets(content) # <<>>
        /\ \E u \in PageUrls(url) : pageUrl' = u
        /\ clock' = clock + 1
        /\ pc' = "attempt_loop"
     \/ /\ pc' = "attempt_anchors"
        /\ UNCHANGED <<pageUrl, clock>>
  /\ UNCHANGED <<unitv, botv, reqv, orchv, ghostv, result, current_url, last_url, content, navv, sessv, exitv>>

\* Lines 575-606: the anchors, then the wait that ends the round. A goto that
\* raises returns a new dict.
attempt_bypass_once_anchors ==
  /\ pc = "attempt_anchors"
  /\ \E anchors \in AnchorLists :
       LET r == AnchorScan(anchors, pageUrl) IN
       /\ pageUrl' = r.page
       /\ IF r.how = "page"
          THEN /\ \E shot \in PathShots(result.screenshot_b64, i) :
                    BotReturn([result EXCEPT !.final_url = r.fin, !.screenshot_b64 = shot])
               /\ UNCHANGED orchv_but_res
          ELSE IF r.how = "href"
          THEN /\ BotReturn([NewResult(r.fin) EXCEPT !.raw_last_url = r.page])
               /\ UNCHANGED orchv_but_res
          ELSE \E ok \in BOOLEAN :
                 /\ last_url' = r.page
                 /\ IF ok
                    THEN /\ clock' = clock + 1
                         /\ pc' = "attempt_loop"
                    ELSE /\ pc' = "attempt_except"
                         /\ UNCHANGED clock
                 /\ UNCHANGED <<orchv, result, current_url, content>>
  /\ UNCHANGED <<unitv, botv, reqv, ghostv, navv, sessv, exitv>>

\* Lines 608-615: the budget is used up.
attempt_bypass_once_timeout ==
  /\ pc = "attempt_timeout"
  /\ \E shot \in PathShots(result.screenshot_b64, i) :
       BotReturn([result EXCEPT !.final_url = pageUrl, !.screenshot_b64 = shot])
  /\ UNCHANGED <<unitv, botv, reqv, orchv_but_res, ghostv, navv, pageUrl, sessv, exitv>>

\* Lines 617-624: an exception that nothing nearer caught.
attempt_bypass_once_except ==
  /\ pc = "attempt_except"
  /\ \E shot \in PathShots(result.screenshot_b64, i) :
       BotReturn([result EXCEPT !.screenshot_b64 = shot])
  /\ UNCHANGED <<unitv, botv, reqv, orchv_but_res, ghostv, navv, pageUrl, sessv, exitv>>

\* ------------------------------------------------ src/bot.py: bypass_gplinks
\* Lines 637-643; `final` is last_result, `i` is attempt.
bypass_gplinks_launch ==
  /\ variant = "bot"
  /\ pc = "launch"
  /\ AcquireSession("bot_for")
  /\ final' = NewResult(url)
  /\ i' = 1
  /\ UNCHANGED <<unitv, botv, reqv, attempt_made, res, stop, ghostv, locv, navv, pageUrl, response>>

\* Lines 644-654 and 683-685: do_human_like_actions (what fails in it is
\* logged) and the next attempt, or return last_result.
bypass_gplinks_for ==
  /\ pc = "bot_for"
  /\ IF i <= attempts
     THEN /\ pc' = "attempt_enter"
          /\ UNCHANGED <<stop, pending>>
     ELSE /\ stop' = "exhausted"
          /\ pending' = "return"
          /\ pc' = "bot_finally"
  /\ UNCHANGED <<unitv, botv, reqv, i, attempt_made, res, final, ghostv, locv, navv, pageUrl, sessv, response>>

\* bypass_gplinks_after with the test `attempt < attempts` of line 670 as
\* `attempt <= attempts`: the backoff follows the last attempt too.
bypass_gplinks_after_always_backoff ==
  /\ pc = "bot_after"
  /\ final' = res
  /\ IF res.captcha_detected
     THEN /\ stop' = "blocked"
          /\ pending' = "return"
          /\ pc' = "bot_finally"
          /\ UNCHANGED i
     ELSE IF looks_final_nested(res.final_url) /\ res.final_url # url
     THEN /\ stop' = "success"
          /\ pending' = "return"
          /\ pc' = "bot_finally"
          /\ UNCHANGED i
     ELSE IF i <= attempts
     THEN /\ pc' = "bot_backoff"
          /\ UNCHANGED <<i, stop, pending>>
     ELSE /\ i' = i + 1
          /\ pc' = "bot_for"
          /\ UNCHANGED <<stop, pending>>
  /\ UNCHANGED <<unitv, botv, reqv, attempt_made, res, ghostv, locv, navv, pageUrl, sessv, response>>

\* Lines 655-670.
bypass_gplinks_after ==
  /\ pc = "bot_after"
  /\ final' = res
  /\ IF res.captcha_detected
     THEN /\ stop' = "blocked"
          /\ pending' = "return"
          /\ pc' = "bot_finally"
          /\ UNCHANGED i
     ELSE IF looks_final_nested(res.final_url) /\ res.final_url # url
     THEN /\ stop' = "success"
          /\ pending' = "return"
          /\ pc' = "bot_finally"
          /\ UNCHANGED i
     ELSE IF i < attempts
     THEN /\ pc' = "bot_backoff"
          /\ UNCHANGED <<i, stop, pending>>
     ELSE /\ i' = i + 1
          /\ pc' = "bot_for"
          /\ UNCHANGED <<stop, pending>>
  /\ UNCHANGED <<unitv, botv, reqv, attempt_made, res, ghostv, locv, navv, pageUrl, sessv, response>>

\* Lines 670-681: page.wait_for_timeout(wait_t) stands outside every try
\* but the one of the finally; page.reload is inside one.
bypass_gplinks_backoff ==
  /\ pc = "bot_backoff"
  /\ \E ok \in BOOLEAN :
       IF ok
       THEN /\ \E u \in PageUrls(url) : pageUrl' = u
            /\ i' = i + 1
            /\ Forget
            /\ pc' = "bot_for"
            /\ UNCHANGED <<stop, pending>>
       ELSE /\ stop' = "error"
            /\ pending' = "raise"
            /\ pc' = "bot_finally"
            /\ UNCHANGED <<i, res, final, pageUrl>>
  /\ UNCHANGED <<unitv, botv, reqv, attempt_made, ghostv, locv, navv, sessv, response>>

\* Lines 687-695; the value returned is res or last_result, both in `final`.
bypass_gplinks_finally ==
  /\ pc = "bot_finally"
  /\ CloseSession
  /\ IF pending = "raise"
     THEN /\ pc' = "raised"
          /\ UNCHANGED response
     ELSE /\ pc' = "returned"
          /\ response' = [final_url |-> final.final_url,
                          raw_last_url |-> final.raw_last_url,
                          captcha_detected |-> final.captcha_detected,
                          screenshot_b64 |-> final.screenshot_b64,
                          attempts_made |-> 0,
                          nav_history |-> <<>>]
  /\ UNCHANGED <<unitv, botv, reqv, orchv, ghostv, locv, navv, pageUrl, pending>>

\* --------------------------------- src/web_bypass.py: the form-based resolver
U_INTER == <<"https://", "procinehub.com", "/go", "?id=", "7">>
U_ADS == <<"https://", "ads.", "example.net", "/land">>

INTERMEDIATE_HOSTS == {"procinehub.com", "ad.", "ads.", "short", "interstitial"}

looks_intermediate(u) ==
  IF u = None THEN FALSE
  ELSE \E h \in INTERMEDIATE_HOSTS : Contains(lower(u), <<h>>)

\* What the site answers to one run of gplinks_bypass_sync. get, post, follow:
\* "ok" or "fail" (the request raises); form: whether form#go-link is there;
\* redirect: resolve_meta_or_js_redirect of the first page; candidate: the URL
\* in the answer to the POST; follow_url, follow_meta: where the intermediate
\* candidate leads, and the redirect its page holds.
Site(get, form, redirect, post, candidate, follow, follow_url, follow_meta) ==
  [get |-> get, form |-> form, redirect |-> redirect, post |-> post,
   candidate |-> candidate, follow |-> follow, follow_url |-> follow_url,
   follow_meta |-> follow_meta]

Sites ==
  {Site("fail", FALSE, None, "ok", None, "ok", None, None),
   Site("ok", FALSE, None, "ok", None, "ok", None, None),
   Site("ok", FALSE, U_DEST, "ok", None, "ok", None, None),
   Site("ok", TRUE, None, "fail", None, "ok", None, None),
   Site("ok", TRUE, None, "ok", None, "ok", None, None),
   Site("ok", TRUE, None, "ok", U_DEST, "ok", None, None),
   Site("ok", TRUE, None, "ok", U_INTER, "fail", None, None),
   Site("ok", TRUE, None, "ok", U_INTER, "ok", U_ADS, None),
   Site("ok", TRUE, None, "ok", U_INTER, "ok", U_ADS, U_DEST),
   Site("ok", TRUE, None, "ok", U_INTER, "ok", U_DEST, U_DEST),
   Site("ok", TRUE, None, "ok", U_INTER, "ok", U_INTER, U_INTER)}

\* Lines 518-634: the value returned (raised: a RuntimeError instead).
gplinks_bypass_sync(start, site) ==
  \* raw: r.url, taken to be the URL asked for
  LET Raise == [raised |-> TRUE, final |-> None, raw |-> None]
      Return(u) == [raised |-> FALSE, final |-> u, raw |-> start]
  IN IF site.get = "fail" THEN Raise
     ELSE IF ~site.form
     THEN IF site.redirect # None THEN Return(site.redirect) ELSE Raise
     ELSE IF site.post = "fail" THEN Raise
     ELSE IF site.candidate = None THEN Raise
     ELSE IF looks_intermediate(site.candidate) /\ site.follow = "ok"
     THEN IF site.follow_meta # None /\ site.follow_meta # site.follow_url
          THEN Return(site.follow_meta)
          ELSE IF ~looks_intermediate(site.follow_url)
          THEN Return(site.follow_url)
          ELSE Return(site.candidate)
     ELSE Return(site.candidate)

\* Lines 637-644 and 666: the for loop; past the last attempt the handler
\* raises HTTPException(502).
bypass_for ==
  /\ pc = "form_for"
  /\ IF i <= attempts
     THEN /\ started' = started + 1
          /\ pc' = "form_attempt"
          /\ UNCHANGED <<stop, pending>>
     ELSE /\ stop' = "exhausted"
          /\ pending' = "raise"
          /\ pc' = "raised"
          /\ UNCHANGED started
  /\ UNCHANGED <<unitv, botv, reqv, i, attempt_made, res, final, chosen, goto_url, nav_raised, locv, navv, pageUrl, sessv, response>>

\* bypass_attempt without the test of line 652: the first URL extracted is
\* returned.
bypass_attempt_first_answer ==
  /\ pc = "form_attempt"
  /\ \E site \in Sites :
       LET r == gplinks_bypass_sync(url, site) IN
       IF ~r.raised /\ r.final # None
       THEN /\ response' = [final_url |-> r.final,
                            raw_last_url |-> r.raw,
                            captcha_detected |-> FALSE,
                            screenshot_b64 |-> None,
                            attempts_made |-> i,
                            nav_history |-> <<>>]
            /\ stop' = "success"
            /\ pending' = "return"
            /\ pc' = "returned"
            /\ UNCHANGED i
       ELSE /\ i' = i + 1
            /\ pc' = "form_for"
            /\ UNCHANGED <<stop, pending, response>>
  /\ UNCHANGED <<unitv, botv, reqv, attempt_made, res, final, ghostv, locv, navv, pageUrl, sessv>>

\* Lines 645-664: one attempt and what the loop does with it.
bypass_attempt ==
  /\ pc = "form_attempt"
  /\ \E site \in Sites :
       LET r == gplinks_bypass_sync(url, site) IN
       IF ~r.raised /\ r.final # None /\ ~(looks_intermediate(r.final) /\ i < attempts)
       THEN /\ response' = [final_url |-> r.final,
                            raw_last_url |-> r.raw,
                            captcha_detected |-> FALSE,
                            screenshot_b64 |-> None,
                            attempts_made |-> i,
                            nav_history |-> <<>>]
            /\ stop' = "success"
            /\ pending' = "return"
            /\ pc' = "returned"
            /\ UNCHANGED i
       ELSE /\ i' = i + 1
            /\ pc' = "form_for"
            /\ UNCHANGED <<stop, pending, response>>
  /\ UNCHANGED <<unitv, botv, reqv, attempt_made, res, final, ghostv, locv, navv, pageUrl, sessv>>

\* ------------------------------------------------- src/bot.py: the settings
\* Lines 360-364.
ConfigDefault == [HEADLESS |-> TRUE, RETRY_ATTEMPTS |-> 4, SIMULATE_MOUSE |-> TRUE]

\* ----------------------------------------------- src/bot.py: handle_any_text
\* Two messages that arrive while the bot is polling: the dispatcher runs one
\* handler task for each, and the tasks interleave at their awaits.
Chats == {"A", "B"}

FilePaths == {screenshot_path(n) : n \in 1..MaxAttempts}

mainv_but_unit == <<reqv, pc, orchv, ghostv, locv, navv, pageUrl, sessv, exitv>>
mainv == <<mainv_but_unit, unitv>>

\* max(a, b) and min(a, b) of two numbers.
max(a, b) == IF a >= b THEN a ELSE b
min(a, b) == IF a <= b THEN a ELSE b

\* A word is a sequence of characters. The character U+00B2 (superscript two)
\* is a digit for str.isdigit() and no digit for int().
SUPERSCRIPT_TWO == "^2"
Digits == {"0", "1", "2", "3", "4", "5", "6", "7", "8", "9"}
DigitVal(c) == CHOOSE n \in 0..9 : ToString(n) = c

\* str.isdigit()
isdigit(w) == w # <<>> /\ \A k \in 1..Len(w) : w[k] \in Digits \cup {SUPERSCRIPT_TWO}

\* int(w) of a word that passed isdigit(): the number, or ValueError.
int_raises(w) == \E k \in 1..Len(w) : w[k] \notin Digits
RECURSIVE int(_)
int(w) ==
  IF w = <<>> THEN 0
  ELSE 10 * int(SubSeq(w, 1, Len(w) - 1)) + DigitVal(w[Len(w)])

\* message.text.split() of the messages that reach cmd_set_retries: the command
\* alone, and the command with a word after it.
RetryWords ==
  {<<ToString(n)>> : n \in 0..MaxAttempts}
    \cup {<<"0", "2">>, <<"-", "1">>, <<"o", "n">>, <<SUPERSCRIPT_TWO>>}
SetRetriesMessages ==
  {<<(<<"/set_retries">>)>>} \cup {<<(<<"/set_retries">>), w>> : w \in RetryWords}

\* Lines 722-729: the usage reply, or the setting (int() raising leaves the
\* handler before the assignment). Numbers above MaxAttempts are not sent.
cmd_set_retries ==
  /\ \E args \in SetRetriesMessages :
       IF Len(args) < 2 \/ ~isdigit(args[2]) THEN UNCHANGED CONFIG
       ELSE IF int_raises(args[2]) THEN UNCHANGED CONFIG
       ELSE /\ max(1, int(args[2])) <= MaxAttempts
            /\ CONFIG' = [CONFIG EXCEPT !.RETRY_ATTEMPTS = max(1, int(args[2]))]
  /\ UNCHANGED <<mainv, handlers, files>>

OnOffWords == {<<"on">>, <<"off">>, <<"ON">>, <<"yes">>}
\* message.text.split() of the messages that reach cmd_set_headless and
\* cmd_set_mouse, without the command word: nothing, or one word.
OnOffMessages(cmd) == {<<(<<cmd>>)>>} \cup {<<(<<cmd>>), w>> : w \in OnOffWords}

\* Lines 712-719.
cmd_set_headless ==
  /\ \E args \in OnOffMessages("/set_headless") :
       IF Len(args) < 2 \/ lower(args[2]) \notin {<<"on">>, <<"off">>}
       THEN UNCHANGED CONFIG
       ELSE CONFIG' = [CONFIG EXCEPT !.HEADLESS = (lower(args[2]) = <<"on">>)]
  /\ UNCHANGED <<mainv, handlers, files>>

\* Lines 732-739.
cmd_set_mouse ==
  /\ \E args \in OnOffMessages("/set_mouse") :
       IF Len(args) < 2 \/ lower(args[2]) \notin {<<"on">>, <<"off">>}
       THEN UNCHANGED CONFIG
       ELSE CONFIG' = [CONFIG EXCEPT !.SIMULATE_MOUSE = (lower(args[2]) = <<"on">>)]
  /\ UNCHANGED <<mainv, handlers, files>>

\* A handler of handle_any_text: where it is, the locals of its bypass_gplinks
\* (attempts, headless, simulate_mouse; attempt, the loop variable), what the
\* browser was launched with, whether do_human_like_actions ran before the
\* latest attempt, the screenshot of the result, the file sent.
NoHandler ==
  [pc |-> "off", attempts |-> 0, headless |-> FALSE, simulate_mouse |-> FALSE,
   attempt |-> 0, launched_headless |-> FALSE, moved |-> FALSE,
   screenshot |-> None, sent |-> "none"]

\* Lines 743-777 and 630-635: the target is extracted, bypass_gplinks is
\* called and reads the three settings into its locals.
handle_any_text(c) ==
  /\ handlers[c].pc = "start"
  /\ handlers' = [handlers EXCEPT ![c].pc = "launch",
                                   ![c].attempts = CONFIG.RETRY_ATTEMPTS,
                                   ![c].headless = CONFIG.HEADLESS,
                                   ![c].simulate_mouse = CONFIG.SIMULATE_MOUSE]
  /\ UNCHANGED <<mainv, files, CONFIG>>

\* handler_launch with the setting read when the browser is launched.
handler_launch_late(c) ==
  /\ handlers[c].pc = "launch"
  /\ handlers' = [handlers EXCEPT ![c].pc = "attempt",
                                   ![c].launched_headless = CONFIG.HEADLESS,
                                   ![c].attempt = 1]
  /\ UNCHANGED <<mainv, files, CONFIG>>

\* Lines 637-644: the session of this request is opened with the local
\* headless; the first attempt is next.
handler_launch(c) ==
  /\ handlers[c].pc = "launch"
  /\ handlers' = [handlers EXCEPT ![c].pc = "attempt",
                                   ![c].launched_headless = handlers[c].headless,
                                   ![c].attempt = 1]
  /\ UNCHANGED <<mainv, files, CONFIG>>

\* Lines 644-685: do_human_like_actions when the local simulate_mouse says so,
\* then attempt_bypass_once(page, url, ..., attempt): every return of it takes
\* page.screenshot(path=screenshot_path), which writes the picture of this
\* request's page to the file, or fails; `decided` is a result with a challenge
\* or a final URL. The loop runs to the local attempts.
handler_attempt(c) ==
  /\ handlers[c].pc = "attempt"
  /\ \E decided \in BOOLEAN, shot \in BOOLEAN :
       LET n == handlers[c].attempt
           path == screenshot_path(n)
       IN /\ files' = IF shot THEN [files EXCEPT ![path] = c] ELSE files
          /\ IF decided \/ n >= handlers[c].attempts
             THEN handlers' = [handlers EXCEPT ![c].pc = "reply",
                                               ![c].moved = handlers[c].simulate_mouse,
                                               ![c].screenshot = IF shot THEN path ELSE None]
             ELSE handlers' = [handlers EXCEPT ![c].attempt = n + 1,
                                               ![c].moved = handlers[c].simulate_mouse]
  /\ UNCHANGED <<mainv, CONFIG>>

\* Lines 779-795: after the awaits that report the progress and the URL, the
\* file the result names is sent when it exists.
handler_reply(c) ==
  /\ handlers[c].pc = "reply"
  /\ LET screenshot == handlers[c].screenshot IN
     handlers' = [handlers EXCEPT
                    ![c].pc = "done",
                    ![c].sent = IF screenshot # None /\ files[screenshot] # "absent"
                                THEN files[screenshot] ELSE "none"]
  /\ UNCHANGED <<mainv, files, CONFIG>>

\* ------------------------------------------------------- the specifications
Variants == {"api", "nav", "bot", "form"}

NoRequest ==
  /\ i = 1
  /\ attempt_made = 0
  /\ res = NewResult(None)
  /\ final = NewResult(None)
  /\ stop = "none"
  /\ started = 0
  /\ chosen = None
  /\ goto_url = None
  /\ nav_raised = FALSE
  /\ result = NewResult(None)
  /\ current_url = None
  /\ last_url = None
  /\ content = C_EMPTY
  /\ clock = 0
  /\ nav_history = <<>>
  /\ found_network_urls = {}
  /\ grace = 0
  /\ listeners = 0
  /\ clicked = FALSE
  /\ pageUrl = None
  /\ page = "none"
  /\ context = "none"
  /\ browser = "none"
  /\ pending = "none"
  /\ response = NoResponse

\* What a helper returned: a truth value, a text or a number, by the helper.
NoValue == [flag |-> FALSE, text |-> None, number |-> 0]

\* What a helper is given: a URL, the content of a page, or the number of an
\* attempt with the jitter drawn for it (in milliseconds).
NoArg ==
  [kind |-> "none", url |-> None, content |-> C_EMPTY, attempt |-> 0, jitter |-> 0,
   elements |-> <<>>, given |-> FALSE]

\* No helper is being evaluated on its own.
NoCall ==
  /\ fn = "none"
  /\ arg = NoArg
  /\ ret = NoValue

\* One request to one of the four resolvers.
Init ==
  /\ variant \in Variants
  /\ url \in StartUrls
  /\ attempts \in 1..MaxAttempts
  /\ include_screenshot \in BOOLEAN
  /\ pc = IF variant = "form" THEN "form_for" ELSE "launch"
  /\ NoRequest
  /\ NoCall
  /\ handlers = [c \in Chats |-> NoHandler]
  /\ files = [f \in FilePaths |-> "absent"]
  /\ CONFIG = ConfigDefault

Next ==
  \/ api_endpoint_launch \/ api_endpoint_for \/ api_endpoint_after
  \/ api_endpoint_backoff \/ api_endpoint_finally \/ api_endpoint_response
  \/ bypass_url_once_enter \/ bypass_url_once_goto \/ bypass_url_once_loop
  \/ bypass_url_once_content \/ bypass_url_once_sniff \/ bypass_url_once_anchors
  \/ bypass_url_once_timeout \/ bypass_url_once_except
  \/ Cancelled
  \/ nav_endpoint_launch \/ nav_endpoint_for \/ nav_endpoint_after
  \/ nav_endpoint_backoff \/ nav_endpoint_finally \/ nav_endpoint_response
  \/ bypass_once_enter \/ bypass_once_goto \/ bypass_once_loop \/ bypass_once_click
  \/ bypass_once_content \/ bypass_once_grace \/ bypass_once_fallback
  \/ bypass_once_timeout \/ bypass_once_except \/ bypass_once_finally
  \/ ResponseEvent
  \/ bypass_gplinks_launch \/ bypass_gplinks_for \/ bypass_gplinks_after
  \/ bypass_gplinks_backoff \/ bypass_gplinks_finally
  \/ attempt_bypass_once_enter \/ attempt_bypass_once_goto \/ attempt_bypass_once_loop
  \/ attempt_bypass_once_content \/ attempt_bypass_once_sniff
  \/ attempt_bypass_once_anchors \/ attempt_bypass_once_timeout
  \/ attempt_bypass_once_except
  \/ bypass_for \/ bypass_attempt

Spec == Init /\ [][Next]_vars

\* Two messages to the Telegram bot at once, each with a URL to resolve.
InitHandlers ==
  /\ variant = "bot"
  /\ url = U_GATE
  /\ attempts = MaxAttempts
  /\ include_screenshot = TRUE
  /\ pc = "off"
  /\ NoRequest
  /\ NoCall
  /\ handlers = [c \in Chats |-> [NoHandler EXCEPT !.pc = "start"]]
  /\ files = [f \in FilePaths |-> "absent"]
  /\ CONFIG = [ConfigDefault EXCEPT !.RETRY_ATTEMPTS = MaxAttempts]

NextHandlers ==
  \E c \in Chats :
    handle_any_text(c) \/ handler_launch(c) \/ handler_attempt(c) \/ handler_reply(c)

SpecHandlers == InitHandlers /\ [][NextHandlers]_vars

\* One message with a URL to resolve, and the commands that change the
\* settings arriving at any time before, while and after it is served.
InitSettings ==
  /\ variant = "bot"
  /\ url = U_GATE
  /\ attempts = MaxAttempts
  /\ include_screenshot = TRUE
  /\ pc = "off"
  /\ NoRequest
  /\ NoCall
  /\ handlers = [c \in Chats |-> IF c = "A" THEN [NoHandler EXCEPT !.pc = "start"]
                                             ELSE NoHandler]
  /\ files = [f \in FilePaths |-> "absent"]
  /\ CONFIG = [ConfigDefault EXCEPT !.RETRY_ATTEMPTS = MaxAttempts]

NextSettings ==
  \/ \E c \in Chats :
       handle_any_text(c) \/ handler_launch(c) \/ handler_attempt(c) \/ handler_reply(c)
  \/ cmd_set_headless \/ cmd_set_retries \/ cmd_set_mouse

SpecSettings == InitSettings /\ [][NextSettings]_vars

\* ------------------------------------------------ the helpers on their own
\* Pages for the challenge detection: the contents above, and pages with the
\* other keywords and with the word verify alone.
C_VERIFY == [text |-> <<"Verify", " your email">>, links |-> <<>>, meta |-> None, js |-> None]
C_ROBOT == [text |-> <<"I Am Not A Robot">>, links |-> <<>>, meta |-> None, js |-> None]
C_HCAPTCHA == [text |-> <<"h", "CAPTCHA">>, links |-> <<>>, meta |-> None, js |-> None]
UnitContents == Contents \cup {C_VERIFY, C_ROBOT, C_HCAPTCHA}

\* src/bot.py 28 (ATTEMPT_COUNT), src/web_bypass.py 36.
DEFAULT_ATTEMPTS == 3
\* src/web_bypass.py 640.
FORM_ATTEMPTS_CAP == 6

\* The attempts field of a request: left out or null (given is FALSE), or a
\* number.
RequestedAttempts == {-3, 0, 1, 3, 10, 11, 1000}

\* random.uniform(-1.5, 1.5) of bot.py 672, in milliseconds.
Jitters == {-1500, -700, 0, 700, 1500}

UnitArgs ==
  {[NoArg EXCEPT !.kind = "url", !.url = u] : u \in UnitUrls}
  \cup {[NoArg EXCEPT !.kind = "content", !.content = c] : c \in UnitContents}
  \cup {[NoArg EXCEPT !.kind = "attempt", !.attempt = k, !.jitter = j] :
          k \in 1..(ATTEMPTS_CAP - 1), j \in Jitters}
  \cup {[NoArg EXCEPT !.kind = "elements", !.url = u, !.elements = els] :
          u \in {U_GATE, U_GATE2}, els \in ElementLists}
  \cup {[NoArg EXCEPT !.kind = "request"]}
  \cup {[NoArg EXCEPT !.kind = "request", !.given = TRUE, !.attempt = n] :
          n \in RequestedAttempts}

\* 2 ** i
RECURSIVE Pow2(_)
Pow2(n) == IF n = 0 THEN 1 ELSE 2 * Pow2(n - 1)

\* backoff = (2 ** i) + (0.5 * i) with a constant in place of the power.
backoff_flat(i_) == 4000 - 500 * i_

\* Lines 330-333 of bot.py and 483 of web_bypass.py:
\* backoff = (2 ** i) + (0.5 * i), in the milliseconds of int(backoff * 1000).
backoff(i_) == Pow2(i_) * 1000 + 500 * i_

\* Lines 671-676 of bot.py: wait_t = max(0.5, (2.0 ** attempt) + jitter), in the
\* milliseconds of int(wait_t * 1000).
wait_t(attempt, jitter) ==
  LET t == Pow2(attempt) * 1000 + jitter IN IF t < 500 THEN 500 ELSE t

\* The wait of bypass_endpoint before attempt i + 1.
call_backoff ==
  /\ fn = "none"
  /\ arg.kind = "attempt"
  /\ arg.jitter = 0
  /\ fn' = "backoff"
  /\ ret' = [NoValue EXCEPT !.number = backoff(arg.attempt)]
  /\ UNCHANGED <<mainv_but_unit, botv, arg>>

\* The wait of bypass_gplinks before attempt + 1.
call_wait_t ==
  /\ fn = "none"
  /\ arg.kind = "attempt"
  /\ fn' = "wait_t"
  /\ ret' = [NoValue EXCEPT !.number = wait_t(arg.attempt, arg.jitter)]
  /\ UNCHANGED <<mainv_but_unit, botv, arg>>

\* The challenge detection of the three attempt functions on one page.
call_detect_captcha ==
  /\ fn = "none"
  /\ arg.kind = "content"
  /\ fn' = "detect_captcha"
  /\ ret' = [NoValue EXCEPT !.flag = detect_captcha(arg.content)]
  /\ UNCHANGED <<mainv_but_unit, botv, arg>>

\* looks_final(u) of src/bot.py, line 47
call_looks_final ==
  /\ fn = "none"
  /\ arg.kind = "url"
  /\ fn' = "looks_final"
  /\ ret' = [NoValue EXCEPT !.flag = looks_final(arg.url)]
  /\ UNCHANGED <<mainv_but_unit, botv, arg>>

\* looks_final(u) of attempt_bypass_once and bypass_gplinks, lines 490 and 662
call_looks_final_nested ==
  /\ fn = "none"
  /\ arg.kind = "url"
  /\ fn' = "looks_final_nested"
  /\ ret' = [NoValue EXCEPT !.flag = looks_final_nested(arg.url)]
  /\ UNCHANGED <<mainv_but_unit, botv, arg>>

\* looks_final(u) of src/web_bypass.py, line 64
call_looks_final_nav ==
  /\ fn = "none"
  /\ arg.kind = "url"
  /\ fn' = "looks_final_nav"
  /\ ret' = [NoValue EXCEPT !.flag = looks_final_nav(arg.url)]
  /\ UNCHANGED <<mainv_but_unit, botv, arg>>

\* try_decode_get2_in(url) of src/bot.py, line 53
call_try_decode_get2_in ==
  /\ fn = "none"
  /\ arg.kind = "url"
  /\ fn' = "try_decode_get2_in"
  /\ ret' = [NoValue EXCEPT !.text = decoded_at[arg.url]]
  /\ UNCHANGED <<mainv_but_unit, botv, arg>>

\* try_click_getlink_elements(page) of src/web_bypass.py, line 82, on a page at
\* arg.url that holds the elements arg.elements.
clicked_at ==
  [a \in {x \in UnitArgs : x.kind = "elements"} |->
     try_click_getlink_elements(a.elements, a.url)]
call_try_click_getlink_elements ==
  /\ fn = "none"
  /\ arg.kind = "elements"
  /\ fn' = "try_click_getlink_elements"
  /\ ret' = [NoValue EXCEPT !.text = clicked_at[arg].ret, !.number = clicked_at[arg].clicks]
  /\ UNCHANGED <<mainv_but_unit, botv, arg>>

\* min(cap, int(req.attempts or default)) without the lower bound.
attempts_of_unbounded_below(a, default, cap) ==
  min(cap, IF ~a.given \/ a.attempt = 0 THEN default ELSE a.attempt)

\* max(1, min(cap, int(req.attempts or default)))
attempts_of(a, default, cap) ==
  max(1, min(cap, IF ~a.given \/ a.attempt = 0 THEN default ELSE a.attempt))

\* bypass_endpoint of src/bot.py, line 296, and of src/web_bypass.py, line 449.
call_bypass_endpoint_attempts ==
  /\ fn = "none"
  /\ arg.kind = "request"
  /\ fn' = "bypass_endpoint_attempts"
  /\ ret' = [NoValue EXCEPT !.number = attempts_of(arg, DEFAULT_ATTEMPTS, ATTEMPTS_CAP)]
  /\ UNCHANGED <<mainv_but_unit, botv, arg>>

\* bypass of src/web_bypass.py, line 640.
call_bypass_attempts ==
  /\ fn = "none"
  /\ arg.kind = "request"
  /\ fn' = "bypass_attempts"
  /\ ret' = [NoValue EXCEPT !.number = attempts_of(arg, DEFAULT_ATTEMPTS, FORM_ATTEMPTS_CAP)]
  /\ UNCHANGED <<mainv_but_unit, botv, arg>>

InitUnits ==
  /\ variant = "api"
  /\ url = U_GATE
  /\ attempts = 1
  /\ include_screenshot = FALSE
  /\ pc = "off"
  /\ NoRequest
  /\ handlers = [c \in Chats |-> NoHandler]
  /\ files = [f \in FilePaths |-> "absent"]
  /\ CONFIG = ConfigDefault
  /\ fn = "none"
  /\ arg \in UnitArgs
  /\ ret = NoValue

NextUnits ==
  \/ call_looks_final \/ call_looks_final_nested \/ call_looks_final_nav
  \/ call_try_decode_get2_in
  \/ call_backoff \/ call_wait_t \/ call_detect_captcha
  \/ call_try_click_getlink_elements
  \/ call_bypass_endpoint_attempts \/ call_bypass_attempts
  \/ cmd_set_retries

SpecUnits == InitUnits /\ [][NextUnits]_vars

\* Every step of a request is an await that the event loop resumes once the
\* operation has returned.
FairSpec == Init /\ [][Next]_vars /\ WF_vars(Next)

\* ------------------------------------------------------------ the properties
AfterPcs == {"api_after", "nav_after", "bot_after"}
BackoffPcs == {"api_backoff", "nav_backoff", "bot_backoff"}
FinallyPcs == {"api_finally", "nav_finally", "bot_finally"}
Playwright == {"api", "nav", "bot"}

\* C1: once an attempt has reported a challenge, the orchestrator begins no
\* further attempt and no backoff or reload (the page stays where it is), the
\* report stays, and the result returned says captcha_detected.
C1_CaptchaEndsTheLoop ==
  /\ [][res.captcha_detected =>
          /\ started' = started
          /\ pc' \notin BackoffPcs
          /\ pageUrl' = pageUrl
          /\ res'.captcha_detected]_vars
  /\ [](pc = "returned" /\ res.captcha_detected => response.captcha_detected)

C1_Witness ==
  /\ pc = "returned"
  /\ res.captcha_detected
  /\ response.captcha_detected
  /\ started = 1
  /\ attempts = MaxAttempts

\* C2: in every result returned, attempts_made is the number of attempts that
\* were begun, and lies in 1..attempts (the result of bypass_gplinks has no
\* such key).
C2_AttemptsMade ==
  pc = "returned" /\ variant # "bot" =>
    /\ response.attempts_made = started
    /\ response.attempts_made \in 1..attempts

C2_Witness ==
  /\ pc = "returned"
  /\ variant = "api"
  /\ stop = "exhausted"
  /\ response.attempts_made = MaxAttempts

\* C3: a resolution that stops on success returns a final_url other than the
\* URL it was asked to resolve.
C3_SuccessIsNotTheStart ==
  pc = "returned" /\ stop = "success" => response.final_url # url

\* C4: when every attempt has ended with neither a success nor a challenge,
\* the resolution returns a result with the URL observed; it does not raise.
C4_ExhaustionReturns ==
  stop = "exhausted" /\ pc \in {"returned", "raised"} =>
    /\ pc = "returned"
    /\ response.final_url # None

\* A URL that the classifier does not take for final.
NonFinal(u) == u = None \/ ~looks_final(u)

\* The page driver of C5 as the state shows it: its operations return, the
\* page is never at a final URL, no attempt has a final URL or a challenge
\* in its result.
QuietDriver ==
  /\ variant \in Playwright
  /\ pc # "raised"
  /\ NonFinal(pageUrl)
  /\ NonFinal(result.final_url) /\ ~result.captcha_detected
  /\ NonFinal(res.final_url) /\ ~res.captcha_detected

\* C5: with a page driver that never gives a final URL, a challenge or a
\* click result, and whose operations return, the resolution returns, after
\* exactly `attempts` attempts.
C5_Terminates ==
  []QuietDriver =>
    <>(/\ pc = "returned"
       /\ started = attempts
       /\ (variant # "bot" => response.attempts_made = attempts))

C5_Witness ==
  /\ pc = "returned"
  /\ variant = "nav"
  /\ stop = "exhausted"
  /\ started = MaxAttempts
  /\ response.attempts_made = MaxAttempts
  /\ NonFinal(response.final_url)

\* C6: at every exit of a resolution that had its session, the close of the
\* context and the close of the browser have both been called, whether or not
\* either of them failed; and the cleanup leaves the exit as it found it: an
\* exception in flight is raised, a value to return is returned.
C6_CleanupOnEveryExit ==
  /\ [](pc \in {"returned", "raised"} /\ page # "none" =>
          /\ context \in {"closed", "close_failed"}
          /\ browser \in {"closed", "close_failed"})
  /\ [][(pc \in FinallyPcs) =>
          (/\ pending' = pending
           /\ (pending = "raise") = (pc' = "raised")
           /\ (pending = "return") = (pc' \in {"returned", "api_response", "nav_response"}))]_vars

C6_Witness ==
  /\ pc = "raised"
  /\ stop = "cancelled"
  /\ page = "open"
  /\ context = "close_failed"
  /\ browser = "closed"

\* C7: the screenshot a handler sends for its request is the one its own
\* attempt took, however the steps of two handlers interleave.
C7_RequestsIndependent ==
  \A c \in Chats : handlers[c].sent \in {"none", c}

\* C8: a resolution of a browser-based resolver that was not cancelled raises
\* only when the session could not be acquired.
C8_OnlyAcquisitionRaises ==
  variant \in Playwright /\ pc = "raised" /\ stop # "cancelled" => page = "none"

\* C9: when a round has found the network set non-empty and chosen from it,
\* the resolution returns the chosen URL as final_url, with no challenge.
C9_NetworkCandidateIsTheAnswer ==
  pc = "returned" /\ chosen # None =>
    /\ response.final_url = chosen
    /\ ~response.captcha_detected

\* C10: nav_history never holds more than MAX_NAV_HISTORY entries.
C10_HistoryBound ==
  Len(nav_history) <= MAX_NAV_HISTORY

\* The labels of bypass_once between its entry and its finally clause.
OncePcs ==
  {"once_enter", "once_goto", "once_loop", "once_click", "once_content",
   "once_grace", "once_fallback", "once_timeout", "once_except", "once_finally"}

IsPrefix(a, b) == Len(a) <= Len(b) /\ SubSeq(b, 1, Len(a)) = a

\* C11: within one attempt of bypass_once nav_history only grows by appending:
\* from each state of the attempt to the next its length does not decrease and
\* the older history is a prefix of the newer one.
C11_HistoryOnlyGrows ==
  [][(pc \in OncePcs /\ pc' \in OncePcs) => IsPrefix(nav_history, nav_history')]_vars

\* The attempt has appended to a history that already had an entry.
C11_Witness ==
  /\ variant = "nav"
  /\ pc \in OncePcs
  /\ Len(nav_history) >= 2
  /\ nav_history[1] # nav_history[2]

\* The names of the copies of the final-URL classifier.
ClassifierCopies == {"looks_final", "looks_final_nested", "looks_final_nav"}

\* C12: every copy of the final-URL classifier returns false for an empty or
\* missing URL and for every URL that has a gate marker in any letter case, and
\* all the copies give the same answer on the same URL.
C12_ClassifierCopiesAgree ==
  (fn \in ClassifierCopies) =>
    /\ (arg.url = None => ret.flag = FALSE)
    /\ (Contains(lower(arg.url), <<"gplinks">>) => ret.flag = FALSE)
    /\ ret.flag = looks_final(arg.url)

\* C13: for a relay link whose query is the URL-safe base64 encoding of a
\* destination starting with http, with its = or without, the decoder returns
\* exactly the destination.
C13_DecoderRoundTrips ==
  (fn = "try_decode_get2_in") =>
    \A d \in Destinations :
      (arg.url \in {Relay(b64(d)), Relay(b64_unpadded(d))}) => ret.text = d

\* C14: the decoder never raises: every input gives a text starting with http
\* or None, and it gives None for every host that is not the relay and for
\* every payload that neither is nor encodes a text starting with http.
C14_DecoderNeverRaises ==
  (fn = "try_decode_get2_in") =>
    /\ ret.text # Raised
    /\ (ret.text = None \/ startswith_http(ret.text))
    /\ (arg.url \in {Relay(p) : p \in JunkPayloads} => ret.text = None)
    /\ (~Contains(lower(arg.url), <<"get2", ".in">>) => ret.text = None)

\* The decoder has been given a link that makes urlparse raise, and one with a
\* payload that is no link.
C14_Witness ==
  /\ fn = "try_decode_get2_in"
  /\ urlparse_raises(arg.url) \/ arg.url = Relay(<<"!", "!", "!">>)
  /\ ret.text = None

\* C15: without jitter the wait computed before attempt i + 1 does not decrease
\* as i grows, for i = 1 .. ATTEMPTS_CAP - 1, in bypass_endpoint (both copies
\* compute the same expression) and in bypass_gplinks.
C15_BackoffMonotone ==
  /\ (fn = "backoff" /\ arg.attempt > 1) => backoff(arg.attempt - 1) <= ret.number
  /\ (fn = "wait_t" /\ arg.jitter = 0 /\ arg.attempt > 1) =>
       wait_t(arg.attempt - 1, 0) <= ret.number

\* The wait before the third attempt of bypass_endpoint is 5 seconds, after 2.5.
C15_Witness ==
  /\ fn = "backoff"
  /\ arg.attempt = 2
  /\ ret.number = 5000
  /\ backoff(1) = 2500

\* The keywords the challenge detection is said to look for.
ClaimedKeywords ==
  {<<"captcha">>, <<"re", "captcha">>, <<"h", "captcha">>, <<"verify">>,
   <<"i am not a robot">>}

\* C16: the challenge detection answers true for every page whose content has,
\* in any letter case, one of captcha, recaptcha, hcaptcha, verify, i am not a
\* robot, and for no other page.
C16_ChallengeKeywords ==
  (fn = "detect_captcha") =>
    ret.flag = (\E k \in ClaimedKeywords : Contains(lower(arg.content.text), k))

\* C17: the response of bypass_endpoint carries a screenshot only if the request
\* asked for one: with include_screenshot false its screenshot field is empty,
\* whatever the outcome (a final URL, a challenge, the attempts used up, an
\* attempt that ended in an exception).
C17_ScreenshotOnlyOnRequest ==
  (variant = "api" /\ pc = "returned" /\ ~include_screenshot) =>
    response.screenshot_b64 = None

\* A request without include_screenshot has returned, and the attempts had
\* taken a screenshot.
C17_Witness ==
  /\ variant = "api"
  /\ pc = "returned"
  /\ ~include_screenshot
  /\ final.screenshot_b64 # None
  /\ response.screenshot_b64 = None

\* C18: the extraction steps never change the state of the page: the markup
\* scan (the targets of a meta refresh and of a script redirect) and the anchor
\* scan only read, so the page is where it was when such a step is over.
C18_ExtractorsOnlyRead ==
  [][(pc \in {"url_once_sniff", "url_once_anchors", "attempt_sniff", "attempt_anchors"})
       => pageUrl' = pageUrl]_vars

\* C19: in every round the current-location check comes before the challenge
\* detection: a round whose current URL passes the classifier and is not the
\* start URL is never the round that reports a challenge.
C19_LocationBeforeChallenge ==
  [][/\ ((pc = "url_once_content" /\ res'.captcha_detected)
           => ~(looks_final(current_url) /\ current_url # url))
     /\ ((pc = "attempt_content" /\ res'.captcha_detected)
           => ~(looks_final_nested(current_url) /\ current_url # url))
     /\ ((pc = "once_content" /\ result'.captcha_detected)
           => ~(looks_final_nav(current_url) /\ current_url # url))]_vars


\* C20: challenge detection runs before the click helper -- a round of the
\* web_bypass.py attempt that stays on one page and reports a challenge (the
\* page's content holds a challenge keyword) has clicked no element of that
\* page, whatever controls the page offers.
C20_ChallengeBeforeClick ==
  (pc = "once_finally" /\ result.captcha_detected /\ pageUrl = current_url) => ~clicked


\* C21: an attempt of web_bypass.py returns on a result of the click helper
\* only when that result is final -- a click step that ends the attempt leaves
\* in the result's final_url a URL that passes looks_final or has the shape of
\* a final destination; a result that is neither lets the round loop go on.
C21_ClickResultValidated ==
  [][(pc = "once_click" /\ pc' = "once_finally")
       => (looks_final_nav(result'.final_url) \/ IsHerokuGenerate(result'.final_url))]_vars


\* C22: one call of the click helper activates at most one element -- after
\* the first matching element that was clicked the scan stops, whether or not
\* the click gave a usable URL.
C22_AtMostOneClick ==
  (fn = "try_click_getlink_elements") => ret.number <= 1

\* The elements of a list without the matching ones that neither el.click nor
\* the evaluate fallback could click.
WithoutDead(els) == SelectSeq(els, LAMBDA el : ~(is_candidate(el) /\ el.act = "dead"))

\* C23: a matching element on which both the click and the fallback click
\* failed is skipped and contributes no result -- the helper returns what it
\* returns for the same page without that element.
C23_DeadElementSkipped ==
  (fn = "try_click_getlink_elements")
    => ret.text = try_click_getlink_elements(WithoutDead(arg.elements), arg.url).ret


\* The order of str: at the first character that differs the smaller code
\* point decides, and a proper prefix comes first.
LexLess(a, b) ==
  LET x == Flatten(a)
      y == Flatten(b)
      n == IF Len(x) < Len(y) THEN Len(x) ELSE Len(y)
      differ == {k \in 1..n : x[k] # y[k]}
  IN IF differ = {} THEN Len(x) < Len(y)
     ELSE \E k \in differ : (\A j \in differ : k <= j) /\ Ord(x[k]) < Ord(y[k])

\* C24: a network-first check that finds the observed set non-empty returns
\* the smallest URL of the set in the order of str, whatever the order in
\* which the response events added the URLs.
C24_NetworkChoiceSmallest ==
  [][(/\ pc \in {"once_loop", "once_grace"}
      /\ found_network_urls # {}
      /\ pc' = "once_finally"
      /\ ~(pc = "once_grace" /\ grace = 0))
       => /\ result'.final_url \in found_network_urls
          /\ \A u \in found_network_urls \ {result'.final_url} : LexLess(result'.final_url, u)]_vars

C24_Witness ==
  /\ pc = "once_finally"
  /\ found_network_urls = {U_NET, U_NETG}
  /\ result.final_url = U_NET
  /\ chosen = U_NET


\* C25: once the grace window of bypass_once is open the attempt ends inside
\* it -- every step of the window either stays in the window or returns a
\* result (a candidate, or at the expiry the page's current URL) with
\* captcha_detected false; nothing else ends the window. (A response event
\* that arrives meanwhile is a step of the listener, not of the window.)
C25_GraceWindowEndsAttempt ==
  [][(pc = "once_grace" /\ found_network_urls' = found_network_urls)
       => /\ pc' \in {"once_grace", "once_finally"}
          /\ ~result'.captcha_detected
          /\ (grace = 0 => (pc' = "once_finally" /\ result'.final_url = pageUrl))]_vars


GotoPcs == {"once_goto", "url_once_goto", "attempt_goto"}
LoopPcs == {"once_loop", "url_once_loop", "attempt_loop"}

\* C26: the first attempt navigates to the start URL, every later attempt to
\* the URL the page had reached when the previous attempt (and the reload
\* after it) was over, not to the start URL again.
C26_LaterAttemptsResume ==
  [][(pc \in GotoPcs /\ pc' \in LoopPcs) => goto_url' = (IF started = 1 THEN url ELSE pageUrl)]_vars


BotBackoffPcs == {"api_backoff", "bot_backoff"}
BotForPcs == {"api_for", "bot_for"}

\* The orchestrators of bot.py take an attempt's result for a success.
IsSuccess(r) ==
  IF variant = "api" THEN looks_final(r.final_url)
  ELSE looks_final_nested(r.final_url) /\ r.final_url # url

\* C27: in bot.py the backoff and the reload stand exactly between an
\* inconclusive attempt and the next one -- the backoff begins only after an
\* attempt that is not the last and reported neither a challenge nor a
\* success; once the wait is over the next attempt begins wherever the reload
\* left the page; and no attempt but the first begins without it.
C27_BackoffBetweenAttempts ==
  [][/\ (pc' \in BotBackoffPcs /\ pc \notin BotBackoffPcs)
          => (pc \in AfterPcs /\ i < attempts /\ ~res.captcha_detected /\ ~IsSuccess(res))
     /\ (pc \in BotBackoffPcs /\ pc' \notin BotBackoffPcs \cup FinallyPcs)
          => (pc' \in BotForPcs /\ i' = i + 1 /\ i' <= attempts)
     /\ (pc' \in BotForPcs /\ pc \notin BotForPcs /\ 1 < i' /\ i' <= attempts)
          => pc \in BotBackoffPcs]_vars

C27_Witness ==
  pc \in BotForPcs /\ i = 2 /\ started = 1 /\ attempts = 2 /\ pageUrl # url


\* C28: a URL the decoder produced is classified before it is the answer -- an
\* attempt of bypass_url_once never returns with a decoded URL that fails
\* looks_final (one with a gate marker, say) as the result's final_url.
C28_DecodedUrlValidated ==
  [][(pc = "url_once_loop" /\ pc' = "api_after" /\ decoded_at[pageUrl] # None)
       => looks_final(res'.final_url)]_vars


\* The values of the key=value pairs of a query, and the longest of them.
PairValues(query) ==
  LET parts == Split(query, "&")
  IN {ValueOf(parts[k]) : k \in {j \in 1..Len(parts) : IndexOf(parts[j], "=") # 0}}
LongestValue(query) ==
  CHOOSE v \in PairValues(query) : \A w \in PairValues(query) : StrLen(w) <= StrLen(v)

\* C29: for a relay link the decoder takes as its payload the longest value
\* of the query's key=value pairs, and the raw query when it holds no = ; the
\* result is that payload decoded.
C29_LongestValueIsPayload ==
  (/\ fn = "try_decode_get2_in"
   /\ arg.url # None
   /\ ~urlparse_raises(arg.url)
   /\ Contains(lower(Netloc(arg.url)), <<"get2", ".in">>)
   /\ QueryOf(arg.url) # <<>>)
    => ret.text = decode_candidate(IF IndexOf(QueryOf(arg.url), "=") # 0
                                   THEN LongestValue(QueryOf(arg.url))
                                   ELSE QueryOf(arg.url))


\* C30: a timeout or an error of the page.goto that begins an attempt does not
\* end the attempt -- the round loop is entered in the same attempt, and its
\* first round works on the URL the page is at.
C30_NavigationFailureNotFatal ==
  [][/\ (pc \in GotoPcs /\ nav_raised') => (pc' \in LoopPcs /\ started' = started /\ i' = i)
     /\ (pc \in LoopPcs /\ nav_raised /\ pc' # pc)
          => (result'.raw_last_url = pageUrl \/ res'.raw_last_url = pageUrl)]_vars

C30_Witness ==
  pc \in LoopPcs /\ nav_raised /\ pageUrl # goto_url

\* C31: a result that reports a challenge -- the attempt's own, the one the
\* orchestrator holds, the merged one, the response -- has the start URL as
\* final_url; only its raw last URL may be another one.
C31_BlockedCarriesStart ==
  /\ \A r \in {result, res, final} : r.captcha_detected => r.final_url = url
  /\ response.captcha_detected => response.final_url = url

C31_Witness ==
  /\ pc = "returned"
  /\ response.captcha_detected
  /\ response.final_url = url
  /\ response.raw_last_url # url

ExceptPcs == {"once_except", "url_once_except", "attempt_except"}

\* The result an attempt hands over in a step: bypass_once passes through its
\* finally clause first, the other two return at once.
Handed == IF variant = "nav" THEN result ELSE res

\* C32: an exception of a page operation that reached the outer handler of an
\* attempt is not raised to the orchestrator: the attempt returns a result,
\* whose final_url is the start URL and whose captcha_detected is false.
C32_ExceptionGivesStartResult ==
  [][(pc \in ExceptPcs /\ stop' # "cancelled")
       => /\ pc' \in {"once_finally", "api_after", "bot_after"}
          /\ pending' = pending
          /\ Handed'.final_url = url
          /\ ~Handed'.captcha_detected]_vars

\* bypass_once is in its finally clause after an exception: only that path
\* leaves raw_last_url behind the page's location.
C32_Witness ==
  /\ pc = "once_finally"
  /\ result.raw_last_url # pageUrl
  /\ result.final_url = url
  /\ ~result.captcha_detected
  /\ Len(result.nav_history) > 1

NoAdjacentRepeat(h) == \A k \in 1..(Len(h) - 1) : h[k] # h[k + 1]

\* C33: the history of an attempt, and every copy of it in a result, never
\* holds the same URL in two adjacent places; the history grows by one URL at
\* a time, which is not empty and is not the last entry recorded before.
C33_NoAdjacentRepeats ==
  /\ [](\A h \in {nav_history, result.nav_history, res.nav_history,
                  final.nav_history, response.nav_history} : NoAdjacentRepeat(h))
  /\ [][(Len(nav_history') > Len(nav_history))
          => /\ Len(nav_history') = Len(nav_history) + 1
             /\ SubSeq(nav_history', 1, Len(nav_history)) = nav_history
             /\ nav_history'[Len(nav_history')] # None
             /\ nav_history'[Len(nav_history')] # <<>>
             /\ (nav_history # <<>>
                   => nav_history'[Len(nav_history')] # nav_history[Len(nav_history)])]_vars

\* A URL recorded a second time, after another one.
C33_Witness ==
  /\ Len(nav_history) >= 3
  /\ nav_history[1] = nav_history[3]
  /\ nav_history[1] # nav_history[2]

\* bypass_once between page.on (line 193) and the finally clause.
ListeningPcs ==
  {"once_goto", "once_loop", "once_click", "once_content", "once_grace",
   "once_fallback", "once_timeout", "once_except", "once_finally"}

\* C34: the page has one response listener while an attempt of bypass_once is
\* between its registration and its finally clause, and none at any other
\* time -- whichever way the attempt ended and however many attempts ran.
C34_ListenerOnlyInFlight ==
  listeners = IF pc \in ListeningPcs THEN 1 ELSE 0

\* The second attempt has ended through the exception handler (raw_last_url is
\* behind the page's location) and the page has no listener.
C34_Witness ==
  /\ pc = "nav_after"
  /\ started = 2
  /\ res.raw_last_url # pageUrl
  /\ listeners = 0

\* C35: the set of network candidates is the running attempt's own. It is
\* empty when the attempt starts and outside every attempt; while the attempt
\* runs it changes only by a response event, which adds to it; and the
\* network-first checks return a member of it, so never a candidate that only
\* an earlier attempt observed.
C35_CandidatesBelongToAttempt ==
  /\ [](pc \notin ListeningPcs => found_network_urls = {})
  /\ [][/\ (pc = "once_enter") => found_network_urls' = {}
        /\ (pc \in ListeningPcs \ {"once_finally"})
             => /\ found_network_urls \subseteq found_network_urls'
                /\ (found_network_urls' # found_network_urls
                      => /\ pc' = pc
                         /\ \E resp \in Responses :
                              found_network_urls' = on_response(found_network_urls, resp))
        /\ (/\ pc \in {"once_loop", "once_grace"}
            /\ found_network_urls # {}
            /\ pc' = "once_finally"
            /\ ~(pc = "once_grace" /\ grace = 0))
             => /\ result'.final_url \in found_network_urls
                /\ found_network_urls' = found_network_urls]_vars

\* The second attempt is at a network-first check; the attempt before chose a
\* candidate that this attempt has not observed.
C35_Witness ==
  /\ pc \in {"once_loop", "once_grace"}
  /\ started = 2
  /\ chosen = U_NETG
  /\ found_network_urls = {U_NET}

\* C36: the attempt count an HTTP endpoint works with lies in 1..10 whatever
\* the request asked for (nothing, 0, a negative or a very large number), and
\* the RETRY_ATTEMPTS setting of the bot is at least 1 after every command.
C36_AttemptCountAtLeastOne ==
  /\ (fn \in {"bypass_endpoint_attempts", "bypass_attempts"})
       => ret.number \in 1..ATTEMPTS_CAP
  /\ CONFIG.RETRY_ATTEMPTS >= 1

\* A request that asked for a negative number got one attempt, after a
\* /set_retries command has changed the setting to 1.
C36_Witness ==
  /\ fn = "bypass_endpoint_attempts"
  /\ arg.given
  /\ arg.attempt < 0
  /\ ret.number = 1
  /\ CONFIG.RETRY_ATTEMPTS = 1

InFlight == {"launch", "attempt"}

\* C37: a resolution reads the three settings when it starts. While it runs
\* its attempt count, headless flag and mouse flag stay what they were then:
\* the browser is launched with that headless flag, each attempt is preceded
\* by the mouse simulation exactly when that mouse flag says so, and the loop
\* runs to that attempt count. A command changes the settings only, and a
\* resolution that starts afterwards reads the settings as they are then.
C37_SettingsReadAtStart ==
  [][\A c \in Chats :
       /\ (handlers[c].pc = "start" /\ handlers'[c].pc # "start")
            => /\ handlers'[c].attempts = CONFIG.RETRY_ATTEMPTS
               /\ handlers'[c].headless = CONFIG.HEADLESS
               /\ handlers'[c].simulate_mouse = CONFIG.SIMULATE_MOUSE
       /\ (handlers[c].pc \in InFlight)
            => /\ handlers'[c].attempts = handlers[c].attempts
               /\ handlers'[c].headless = handlers[c].headless
               /\ handlers'[c].simulate_mouse = handlers[c].simulate_mouse
       /\ (handlers[c].pc = "launch" /\ handlers'[c].pc # "launch")
            => handlers'[c].launched_headless = handlers[c].headless
       /\ (handlers[c].pc = "attempt" /\ handlers'[c] # handlers[c])
            => /\ handlers'[c].moved = handlers[c].simulate_mouse
               /\ handlers'[c].attempt <= handlers[c].attempts
               /\ (handlers'[c].pc = "attempt"
                     => handlers'[c].attempt = handlers[c].attempt + 1)
       /\ (CONFIG' # CONFIG) => handlers' = handlers]_vars

\* A resolution in its second attempt of two, launched and moving the mouse
\* as the settings said when it started, while the settings now say one
\* attempt, the other headless flag and the other mouse flag.
C37_Witness ==
  \E c \in Chats :
    /\ handlers[c].pc = "attempt"
    /\ handlers[c].attempt = 2
    /\ handlers[c].attempts = 2
    /\ CONFIG.RETRY_ATTEMPTS = 1
    /\ handlers[c].launched_headless = handlers[c].headless
    /\ handlers[c].headless # CONFIG.HEADLESS
    /\ handlers[c].moved = handlers[c].simulate_mouse
    /\ handlers[c].simulate_mouse # CONFIG.SIMULATE_MOUSE

\* C38: the form-based endpoint returns a URL that looks intermediate from its
\* last attempt only; an attempt that does not return is followed by the next
\* one while there is one; and attempts_made is the number of the attempt
\* that produced the URL returned.
C38_IntermediateOnlyFromLast ==
  [][(pc = "form_attempt")
       => IF pc' = "returned"
          THEN /\ response'.attempts_made = i
               /\ started = i
               /\ response'.final_url # None
               /\ looks_intermediate(response'.final_url) => i = attempts
          ELSE /\ pc' = "form_for"
               /\ i' = i + 1
               /\ response' = response]_vars

\* An intermediate URL returned by the second attempt of two.
C38_Witness ==
  /\ variant = "form"
  /\ pc = "returned"
  /\ attempts = 2
  /\ started = 2
  /\ response.attempts_made = 2
  /\ looks_intermediate(response.final_url)

====
